---------------------------- MODULE Spec2Model ----------------------------
(***************************************************************************)
(* A model of the docx-to-Jekyll conversion pipeline of src/app.py.        *)
(*                                                                         *)
(* Text is modelled character by character: a Python str is a sequence of  *)
(* one-character strings, so that the cleaning, slugging and matching      *)
(* functions are computed the way the code computes them.  Each function   *)
(* of the pipeline has a frame variable holding its locals, and a          *)
(* specification of its own that runs it on inputs drawn from bounded      *)
(* sets.                                                                   *)
(***************************************************************************)
EXTENDS Integers, Sequences, FiniteSets, TLC

VARIABLES
    kebab,   \* frame of repeated to_kebab_case calls
    seg,     \* frame of process_docx and of the main page loop
    page,    \* frame of parse_page_content
    nav,     \* frame of generate_nav_yaml
    rev,     \* frame of generate_reviews_yaml
    img      \* frame of the main image loop and of download_and_convert_image

vars == <<kebab, seg, page, nav, rev, img>>

(***************************************************************************)
(* Bounds of the model.                                                    *)
(***************************************************************************)
MaxLen == 4

MaxCalls == 2

(***************************************************************************)
(* Characters and the str methods the code uses.                           *)
(***************************************************************************)
UpperCase ==
  <<"A","B","C","D","E","F","G","H","I","J","K","L","M","N","O","P","Q","R","S","T","U","V","W","X","Y","Z">>

LowerCase ==
  <<"a","b","c","d","e","f","g","h","i","j","k","l","m","n","o","p","q","r","s","t","u","v","w","x","y","z">>

Digits == {"0","1","2","3","4","5","6","7","8","9"}

Letters == {UpperCase[i] : i \in 1..26} \cup {LowerCase[i] : i \in 1..26}

\* \s of the re module, restricted to the whitespace that occurs in the text
Whitespace == {" ", "\t", "\n"}

\* \w of the re module on the ASCII part of str
WordChars == Letters \cup Digits \cup {"_"}

\* the class [\s*_\-+\.] of clean_nav_text
NavDecoration == Whitespace \cup {"*", "_", "-", "+", "."}

LowerChar(c) ==
  IF \E i \in 1..26 : UpperCase[i] = c
    THEN LowerCase[CHOOSE i \in 1..26 : UpperCase[i] = c]
    ELSE c

\* str.lower
Lower(s) == [i \in 1..Len(s) |-> LowerChar(s[i])]

\* s[i:] and s[:i] with 1-based i
From(s, i) == SubSeq(s, i, Len(s))

\* s.startswith(p) at offset i
MatchAt(s, p, i) ==
  /\ i >= 1
  /\ i + Len(p) - 1 <= Len(s)
  /\ SubSeq(s, i, i + Len(p) - 1) = p

StartsWith(s, p) == MatchAt(s, p, 1)

EndsWith(s, p) == Len(p) <= Len(s) /\ MatchAt(s, p, Len(s) - Len(p) + 1)

\* p in s
Contains(s, p) == \E i \in 1..(Len(s) - Len(p) + 1) : MatchAt(s, p, i)

\* number of leading characters of s that lie in set S
LeadCount(s, S) ==
  CHOOSE k \in 0..Len(s) :
    /\ \A j \in 1..k : s[j] \in S
    /\ (k = Len(s) \/ s[k + 1] \notin S)

\* number of trailing characters of s that lie in set S
TrailCount(s, S) ==
  CHOOSE k \in 0..Len(s) :
    /\ \A j \in (Len(s) - k + 1)..Len(s) : s[j] \in S
    /\ (k = Len(s) \/ s[Len(s) - k] \notin S)

\* re.sub(r'^[S]+', '', s)
StripLeading(s, S) == SubSeq(s, LeadCount(s, S) + 1, Len(s))

\* re.sub(r'[S]+$', '', s)
StripTrailing(s, S) == SubSeq(s, 1, Len(s) - TrailCount(s, S))

\* str.strip()
Strip(s) == StripTrailing(StripLeading(s, Whitespace), Whitespace)

\* str.strip(c) for a one-character argument
StripChar(s, c) == StripTrailing(StripLeading(s, {c}), {c})

\* the first index >= i of s at which Test holds, or 0
FirstFrom(s, i, Test(_)) ==
  IF \E j \in i..Len(s) : Test(j)
    THEN CHOOSE j \in i..Len(s) : Test(j) /\ \A k \in i..(j - 1) : ~Test(k)
    ELSE 0

\* first index >= i of s holding character c, or 0
IndexFrom(s, c, i) == FirstFrom(s, i, LAMBDA j : s[j] = c)

RECURSIVE ReplaceFrom(_, _, _, _)
RECURSIVE ReplaceAt(_, _, _, _, _)
\* the rest of s from i, given that k is where the next occurrence of old starts (0: none)
ReplaceAt(s, old, new, i, k) ==
  IF k = 0 THEN From(s, i)
  ELSE SubSeq(s, i, k - 1) \o new \o ReplaceFrom(s, old, new, k + Len(old))

ReplaceFrom(s, old, new, i) ==
  ReplaceAt(s, old, new, i, FirstFrom(s, i, LAMBDA j : MatchAt(s, old, j)))

\* str.replace(old, new), old not empty: left to right, non-overlapping
Replace(s, old, new) == ReplaceFrom(s, old, new, 1)

\* re.sub(r'[S]', '', s) and str.replace(c, '') for single characters
RemoveChars(s, S) == SelectSeq(s, LAMBDA c : c \notin S)

\* where a match of \[([^\]]+)\]\(.*?\) that starts at i ends, or 0
LinkEndAfter(s, i, j) ==
  IF i <= Len(s) /\ s[i] = "[" /\ j > i + 1 /\ j + 1 <= Len(s) /\ s[j + 1] = "("
    THEN IndexFrom(s, ")", j + 2)
    ELSE 0

\* j above is the first "]" after the "["
LinkEnd(s, i) == LinkEndAfter(s, i, IndexFrom(s, "]", i + 1))

RECURSIVE StripLinksFrom(_, _)
RECURSIVE StripLinksAt(_, _, _)
\* the rest of s from i, given that k is where the next link starts (0: none)
StripLinksAt(s, i, k) ==
  IF k = 0 THEN From(s, i)
  ELSE SubSeq(s, i, k - 1) \o SubSeq(s, k + 1, IndexFrom(s, "]", k + 1) - 1)
         \o StripLinksFrom(s, LinkEnd(s, k) + 1)

StripLinksFrom(s, i) ==
  StripLinksAt(s, i, FirstFrom(s, i, LAMBDA j : LinkEnd(s, j) > 0))

\* re.sub(r'\[([^\]]+)\]\(.*?\)', r'\1', s)
StripLinks(s) == StripLinksFrom(s, 1)

\* re.sub(r'[S]+', sep, s): every run of characters of S becomes sep
RECURSIVE CollapseFrom(_, _, _, _)
RECURSIVE CollapseAt(_, _, _, _, _)
\* the rest of s from i, given that k is where the next run starts (0: none)
CollapseAt(s, S, sep, i, k) ==
  IF k = 0 THEN From(s, i)
  ELSE SubSeq(s, i, k - 1) \o sep \o CollapseFrom(s, S, sep, k + LeadCount(From(s, k), S))

CollapseFrom(s, S, sep, i) ==
  CollapseAt(s, S, sep, i, FirstFrom(s, i, LAMBDA j : s[j] \in S))

Collapse(s, S, sep) == CollapseFrom(s, S, sep, 1)

(***************************************************************************)
(* Section 1 of app.py: configuration and constants.                       *)
(***************************************************************************)
EXCLUDED_KEYWORDS ==
  << <<"0","0","_","i","g","n","o","r","e">>,
     <<"m","o","c","k","u","p"," ","p","a","g","e","s"," ","r","e","q","u","i","r","e","d">>,
     <<"g","l","o","b","a","l"," ","s","e","c","t","i","o","n","s">>,
     <<"i","n","s","i","d","e"," ","p","a","g","e"," ","c","o","m","p","o","n","e","n","t","s">>,
     <<"o","p","t","i","o","n","a","l"," ","s","p","e","c","i","a","l","t","y"," ","p","a","g","e","s">>,
     <<"h","e","a","d","e","r">>,
     <<"f","o","o","t","e","r">>,
     <<"b","a","d","g","e","s">>,
     <<"n","a","v","i","g","a","t","i","o","n">>,
     <<"i","n","s","i","d","e"," ","f","o","r","m">>,
     <<"f","i","n","a","n","c","i","n","g"," ","b","o","x">>,
     <<"c","o","n","t","a","c","t"," ","i","n","f","o">>,
     <<"v","a","r","i","a","b","l","e","s">>,
     <<"m","e","t","a"," ","d","e","s","c","r","i","p","t","i","o","n">>,
     <<"c","o","n","t","a","c","t"," ","u","s"," ","t","o","d","a","y">>,
     <<"h","o","m","e","p","a","g","e">>,
     <<"p","r","o","m","o","t","i","o","n","s">>,
     <<"c","o","n","t","a","c","t">> >>

\* 'Footer (All Pages)'
START_MARKER == <<"F","o","o","t","e","r"," ","(","A","l","l"," ","P","a","g","e","s",")">>

\* 'Navigation (All Pages)'
NAV_MARKER == <<"N","a","v","i","g","a","t","i","o","n"," ","(","A","l","l"," ","P","a","g","e","s",")">>

\* '00_Ignore'
IGNORE_PAGE == <<"0","0","_","I","g","n","o","r","e">>

\* 'Navigation'
NAVIGATION_KEY == <<"N","a","v","i","g","a","t","i","o","n">>

\* 'Navigation ('
NAV_PAREN == <<"N","a","v","i","g","a","t","i","o","n"," ","(">>

\* 'Dev Note'
DEV_NOTE == <<"D","e","v"," ","N","o","t","e">>

\* 'page'
PAGE_WORD == <<"p","a","g","e">>

\* ' page'
SPACE_PAGE_LOWER == <<" ","p","a","g","e">>

\* 'customer reviews'
CUSTOMER_REVIEWS == <<"c","u","s","t","o","m","e","r"," ","r","e","v","i","e","w","s">>

\* a boundary line's cleaned text is shorter than this
BoundaryMaxLen == 80

\* a page whose trimmed content is shorter than this is skipped
MinContentLen == 10

\* any(keyword in text for keyword in EXCLUDED_KEYWORDS)
HasExcludedKeyword(text) ==
  \E n \in 1..Len(EXCLUDED_KEYWORDS) : Contains(text, EXCLUDED_KEYWORDS[n])

should_skip_page(title, content) ==
  \/ HasExcludedKeyword(Strip(Lower(title)))
  \/ Len(Strip(content)) < MinContentLen

(***************************************************************************)
(* Section 3 of app.py: the utility functions.                             *)
(***************************************************************************)
clean_markdown_link(text) ==
  Strip(RemoveChars(StripLinks(text), {"\\", "<", ">"}))

clean_nav_text(text) ==
  LET t1 == StripLinks(text)
      t2 == RemoveChars(t1, {"{", "}"})
      t3 == StripLeading(t2, NavDecoration)
      t4 == StripTrailing(t3, NavDecoration)
      t5 == RemoveChars(t4, {"#"})
      t6 == Replace(t5, <<"*","*">>, <<>>)
  IN  Strip(t6)

to_kebab_case(text) ==
  LET t1 == clean_nav_text(text)
      t2 == Replace(t1, <<" ","-"," ">>, <<" ">>)
      t3 == RemoveChars(t2, {"|"})
      t4 == SelectSeq(t3, LAMBDA c : c \in WordChars \cup Whitespace \cup {"-"})
      t5 == Lower(Strip(t4))
  IN  Collapse(t5, Whitespace, <<"-">>)

(***************************************************************************)
(* Repeated application of to_kebab_case to an arbitrary short string.     *)
(***************************************************************************)
KebabAlphabet == {"a", "B", " ", "-", "_", "!", "#", "*", "|"}

\* every sequence of at most n elements of A
StringsUpTo(A, n) == UNION {[1..k -> A] : k \in 0..n}

KebabInputs == StringsUpTo(KebabAlphabet, MaxLen)

Idle == [pc |-> "idle"]

KebabInit ==
  /\ kebab \in {[pc |-> "call", x |-> x, results |-> <<>>] : x \in KebabInputs}
  /\ seg = Idle /\ page = Idle /\ nav = Idle /\ rev = Idle /\ img = Idle

\* one more call: to_kebab_case applied to the previous result (to the input at first)
KebabCall ==
  /\ kebab.pc = "call"
  /\ Len(kebab.results) < MaxCalls
  /\ LET arg == IF kebab.results = <<>> THEN kebab.x
                ELSE kebab.results[Len(kebab.results)]
     IN  kebab' = [kebab EXCEPT !.results = Append(@, to_kebab_case(arg))]
  /\ UNCHANGED <<seg, page, nav, rev, img>>

KebabNext == KebabCall

SpecKebab == KebabInit /\ [][KebabNext]_vars

\* C2: to_kebab_case is idempotent: a second application returns what the first returned
KebabIdempotent ==
  (kebab.pc = "call" /\ Len(kebab.results) >= 2) => kebab.results[2] = kebab.results[1]

(***************************************************************************)
(* process_docx: the section map, navigation capture (pass 1) and page     *)
(* segmentation (pass 2), followed by the main page loop.                  *)
(*                                                                         *)
(* The section map is a dict, which keeps insertion order: a sequence of   *)
(* entries [key, value, src].  value is the list of captured lines for     *)
(* 'Navigation' and the joined text for a page.  src is a history field:   *)
(* the indices of the input lines accumulated into the value.              *)
(***************************************************************************)
MaxLines == 5

HasKey(sections, key) == \E n \in 1..Len(sections) : sections[n].key = key

Get(sections, key) == sections[CHOOSE n \in 1..Len(sections) : sections[n].key = key]

\* sections[key] = value
Put(sections, key, value, src) ==
  LET entry == [key |-> key, value |-> value, src |-> src]
  IN  IF HasKey(sections, key)
        THEN [n \in 1..Len(sections) |-> IF sections[n].key = key THEN entry ELSE sections[n]]
        ELSE Append(sections, entry)

\* "\n".join(lines)
RECURSIVE JoinLines(_)
JoinLines(lines) ==
  IF lines = <<>> THEN <<>>
  ELSE IF Len(lines) = 1 THEN lines[1]
  ELSE lines[1] \o <<"\n">> \o JoinLines(Tail(lines))

\* raw_md.split('\n'), the inverse of JoinLines
RECURSIVE SplitLines(_)
SplitLines(text) ==
  IF IndexFrom(text, "\n", 1) = 0 THEN <<text>>
  ELSE <<SubSeq(text, 1, IndexFrom(text, "\n", 1) - 1)>>
         \o SplitLines(From(text, IndexFrom(text, "\n", 1) + 1))

\* the test that ends the navigation capture
EndsNavCapture(stripped, clean) ==
  \/ StartsWith(stripped, <<"#"," ">>)
  \/ (StartsWith(stripped, <<"#","#"," ">>) /\ ~Contains(clean, NAVIGATION_KEY))

extract_nav_items_from_lines(lines) ==
  SelectSeq([n \in 1..Len(lines) |-> clean_nav_text(lines[n])],
            LAMBDA clean : clean # <<>> /\ ~Contains(clean, NAV_PAREN) /\ ~Contains(clean, DEV_NOTE))

\* target_pages, from the captured navigation lines
TargetPages(sections) ==
  IF HasKey(sections, NAVIGATION_KEY)
    THEN LET items == extract_nav_items_from_lines(Get(sections, NAVIGATION_KEY).value)
         IN  {Lower(items[n]) : n \in 1..Len(items)}
    ELSE {}

\* START_MARKER in stripped or "Footer (All Pages)" in stripped
IsMarkerLine(stripped) == Contains(stripped, START_MARKER)

is_h1(stripped) == StartsWith(stripped, <<"#"," ">>)

is_page_keyword(clean) == EndsWith(Lower(clean), PAGE_WORD)

is_reviews(clean) == Contains(Lower(clean), CUSTOMER_REVIEWS)

\* len(clean) < 80 and '[' not in stripped
IsShortAndPlain(stripped, clean) ==
  Len(clean) < BoundaryMaxLen /\ ~Contains(stripped, <<"[">>)

is_exc(clean) == HasExcludedKeyword(Lower(clean)) /\ ~is_reviews(clean)

\* what the two loops compute from a line alone
LineTests(stripped, clean) ==
  [stripped |-> stripped, clean |-> clean, lower |-> Lower(clean),
   nav_marker |-> Contains(clean, NAV_MARKER),
   ends_nav |-> EndsNavCapture(stripped, clean),
   marker |-> IsMarkerLine(stripped),
   heading |-> is_h1(stripped) \/ is_page_keyword(clean) \/ is_reviews(clean),
   short_plain |-> IsShortAndPlain(stripped, clean),
   exc |-> is_exc(clean)]

\* clean = clean_nav_text(stripped)
StrippedFacts(stripped) == LineTests(stripped, clean_nav_text(stripped))

\* stripped = line.strip()
FactsOf(line) == StrippedFacts(Strip(line))

\* the first condition of the boundary test: the line looks like a page heading
IsPageCandidate(f, target_pages) ==
  (f.heading \/ f.lower \in target_pages) /\ f.short_plain

\* the page-boundary test of pass 2
IsPageBoundary(f, target_pages) == IsPageCandidate(f, target_pages) /\ ~f.exc

(***************************************************************************)
(* The documents the segmenter is run on: every sequence of at most        *)
(* MaxLines lines over one of the line sets below.                         *)
(***************************************************************************)
FooterLine == "# Footer (All Pages)"

HomeLine == "# Home Page"

ContentLine == "Some content here"

AboutLine == "# About Page"

MoreLine == "More content"

BangLine == "# !!!"

NavMarkerLine == "## Navigation (All Pages)"

NavItemLine == "- Services"

ContactItemLine == "- Contact Us"

HeaderLine == "# Header"

ReviewsLine == "## Customer Reviews"

TeamLine == "  Our Team Page"

TaggedLine == "[cta] Visit our page"

\* a heading whose cleaned text is BoundaryMaxLen characters long
LongLine == "# xxx..."

BlankLine == ""

PagesScenario == {FooterLine, HomeLine, ContentLine, AboutLine, MoreLine}

NavigationScenario == {FooterLine, HomeLine, NavMarkerLine, NavItemLine, ContactItemLine}

ExclusionScenario == {FooterLine, HomeLine, ContentLine, HeaderLine, ReviewsLine}

RejectedScenario == {FooterLine, HomeLine, ContentLine, TaggedLine, LongLine}

PunctuationScenario == {FooterLine, BangLine, ContentLine, TeamLine, BlankLine}

DocScenarios ==
  {PagesScenario, NavigationScenario, ExclusionScenario, RejectedScenario, PunctuationScenario}

Docs == UNION {StringsUpTo(S, MaxLines) : S \in DocScenarios}

\* the characters of every sample line
Chars ==
  (FooterLine :> <<"#"," ","F","o","o","t","e","r"," ","(","A","l","l"," ","P","a","g","e","s",")">>)
  @@ (HomeLine :> <<"#"," ","H","o","m","e"," ","P","a","g","e">>)
  @@ (ContentLine :> <<"S","o","m","e"," ","c","o","n","t","e","n","t"," ","h","e","r","e">>)
  @@ (AboutLine :> <<"#"," ","A","b","o","u","t"," ","P","a","g","e">>)
  @@ (MoreLine :> <<"M","o","r","e"," ","c","o","n","t","e","n","t">>)
  @@ (BangLine :> <<"#"," ","!","!","!">>)
  @@ (NavMarkerLine :> <<"#","#"," ","N","a","v","i","g","a","t","i","o","n"," ","(","A","l","l"," ","P","a","g","e","s",")">>)
  @@ (NavItemLine :> <<"-"," ","S","e","r","v","i","c","e","s">>)
  @@ (ContactItemLine :> <<"-"," ","C","o","n","t","a","c","t"," ","U","s">>)
  @@ (HeaderLine :> <<"#"," ","H","e","a","d","e","r">>)
  @@ (ReviewsLine :> <<"#","#"," ","C","u","s","t","o","m","e","r"," ","R","e","v","i","e","w","s">>)
  @@ (TeamLine :> <<" "," ","O","u","r"," ","T","e","a","m"," ","P","a","g","e">>)
  @@ (TaggedLine :> <<"[","c","t","a","]"," ","V","i","s","i","t"," ","o","u","r"," ","p","a","g","e">>)
  @@ (LongLine :> <<"#"," ">> \o [n \in 1..BoundaryMaxLen |-> "x"])
  @@ (BlankLine :> <<>>)

\* the sample lines
SampleLines == UNION DocScenarios

\* the facts of every sample line, computed once
LineFacts == [line \in SampleLines |-> FactsOf(Chars[line])] @@ <<>>

\* a commit that keeps the content a page name already has
CommitPageKeepingFirst(s) ==
  IF s.current_content # <<>> /\ s.current_page # IGNORE_PAGE /\ ~HasKey(s.sections, s.current_page)
    THEN Put(s.sections, s.current_page,
             JoinLines([n \in 1..Len(s.current_content) |-> Chars[s.current_content[n]]]),
             s.content_src)
    ELSE s.sections

\* if current_content and current_page != "00_Ignore": sections[current_page] = "\n".join(current_content)
CommitPage(s) ==
  IF s.current_content # <<>> /\ s.current_page # IGNORE_PAGE
    THEN Put(s.sections, s.current_page,
             JoinLines([n \in 1..Len(s.current_content) |-> Chars[s.current_content[n]]]),
             s.content_src)
    ELSE s.sections

\* current_page = clean.replace('#', '').strip()
NewPageName(clean) == Strip(RemoveChars(clean, {"#"}))

\* the slug of a post's file name
PostSlug(page_name) == to_kebab_case(Strip(Replace(Lower(page_name), SPACE_PAGE_LOWER, <<>>)))

SegInit ==
  /\ seg \in {[pc |-> "pass1", lines |-> d, i |-> 1, sections |-> <<>>,
               current_page |-> IGNORE_PAGE, current_content |-> <<>>, content_src |-> {},
               nav_lines |-> <<>>, nav_src |-> {},
               is_capturing_nav |-> FALSE, nav_captured |-> FALSE,
               target_pages |-> {}, has_passed_footer |-> FALSE,
               j |-> 0, posts |-> <<>>, reviews |-> <<>>, valid_cnt |-> 0] : d \in Docs}
  /\ kebab = Idle /\ page = Idle /\ nav = Idle /\ rev = Idle /\ img = Idle

\* one iteration of the first loop over lines
Pass1Step ==
  /\ seg.pc = "pass1"
  /\ seg.i <= Len(seg.lines)
  /\ LET f == LineFacts[seg.lines[seg.i]]
         stripped == f.stripped
     IN  seg' =
           IF ~seg.nav_captured /\ f.nav_marker
             THEN [seg EXCEPT !.is_capturing_nav = TRUE, !.i = @ + 1]
           ELSE IF seg.is_capturing_nav /\ f.ends_nav
             THEN [seg EXCEPT !.is_capturing_nav = FALSE, !.nav_captured = TRUE,
                              !.sections = Put(@, NAVIGATION_KEY, seg.nav_lines, seg.nav_src),
                              !.i = @ + 1]
           ELSE IF seg.is_capturing_nav
             THEN [seg EXCEPT !.nav_lines = Append(@, stripped),
                              !.nav_src = @ \cup {seg.i}, !.i = @ + 1]
           ELSE [seg EXCEPT !.i = @ + 1]
  /\ UNCHANGED <<kebab, page, nav, rev, img>>

\* between the loops: target_pages is filled from the captured navigation
CollectTargets ==
  /\ seg.pc = "pass1"
  /\ seg.i > Len(seg.lines)
  /\ seg' = [seg EXCEPT !.pc = "pass2", !.i = 1, !.target_pages = TargetPages(seg.sections)]
  /\ UNCHANGED <<kebab, page, nav, rev, img>>

\* one iteration of the second loop over lines
Pass2Step ==
  /\ seg.pc = "pass2"
  /\ seg.i <= Len(seg.lines)
  /\ LET line == seg.lines[seg.i]
         f == LineFacts[line]
     IN  seg' =
           IF f.marker
             THEN [seg EXCEPT !.has_passed_footer = TRUE, !.current_page = IGNORE_PAGE,
                              !.current_content = <<>>, !.content_src = {}, !.i = @ + 1]
           ELSE IF ~seg.has_passed_footer
             THEN [seg EXCEPT !.i = @ + 1]
           ELSE IF IsPageBoundary(f, seg.target_pages)
             THEN [seg EXCEPT !.sections = CommitPage(seg),
                              !.current_page = NewPageName(f.clean),
                              !.current_content = <<>>, !.content_src = {}, !.i = @ + 1]
           ELSE IF seg.current_page # IGNORE_PAGE
             THEN [seg EXCEPT !.current_content = Append(@, line),
                              !.content_src = @ \cup {seg.i}, !.i = @ + 1]
           ELSE [seg EXCEPT !.i = @ + 1]
  /\ UNCHANGED <<kebab, page, nav, rev, img>>

\* after the second loop: the last open page is committed and the map returned
FinalCommit ==
  /\ seg.pc = "pass2"
  /\ seg.i > Len(seg.lines)
  /\ seg' = [seg EXCEPT !.pc = "pages", !.sections = CommitPage(seg), !.j = 1]
  /\ UNCHANGED <<kebab, page, nav, rev, img>>

\* one iteration of the main loop over raw_sections.items()
PageStep ==
  /\ seg.pc = "pages"
  /\ seg.j <= Len(seg.sections)
  /\ LET page_name == seg.sections[seg.j].key
         content == seg.sections[seg.j].value
     IN  seg' =
           IF page_name = NAVIGATION_KEY \/ page_name = IGNORE_PAGE
             THEN [seg EXCEPT !.j = @ + 1]
           ELSE IF should_skip_page(page_name, content)
             THEN [seg EXCEPT !.j = @ + 1]
           ELSE IF Contains(Lower(page_name), CUSTOMER_REVIEWS)
             THEN [seg EXCEPT !.reviews = content, !.j = @ + 1]
           ELSE [seg EXCEPT !.posts = Append(@, [page_name |-> page_name, slug |-> PostSlug(page_name)]),
                            !.valid_cnt = @ + 1, !.j = @ + 1]
  /\ UNCHANGED <<kebab, page, nav, rev, img>>

PagesDone ==
  /\ seg.pc = "pages"
  /\ seg.j > Len(seg.sections)
  /\ seg' = [seg EXCEPT !.pc = "done"]
  /\ UNCHANGED <<kebab, page, nav, rev, img>>

SegNext == Pass1Step \/ CollectTargets \/ Pass2Step \/ FinalCommit \/ PageStep \/ PagesDone

SpecSeg == SegInit /\ [][SegNext]_vars

\* C3: every post written by the main loop has a non-empty slug
PostSlugsNonEmpty ==
  seg.pc \in {"pages", "done"} => \A n \in 1..Len(seg.posts) : seg.posts[n].slug # <<>>

(***************************************************************************)
(* Properties of the section map returned by process_docx, stated on the   *)
(* input lines by position.                                                *)
(***************************************************************************)
Returned == seg.pc \in {"pages", "done"}

Fact(n) == LineFacts[seg.lines[n]]

\* line n comes after a line holding the start marker
AfterMarker(n) == \E m \in 1..(n - 1) : Fact(m).marker

\* line n passes the page-boundary test of pass 2
AcceptedBoundary(n) ==
  ~Fact(n).marker /\ AfterMarker(n) /\ IsPageBoundary(Fact(n), seg.target_pages)

\* line n looks like a page heading and is rejected for an excluded keyword
RejectedHeading(n) ==
  ~Fact(n).marker /\ AfterMarker(n) /\ IsPageCandidate(Fact(n), seg.target_pages) /\ Fact(n).exc

\* the first position after n that satisfies Stop, or one past the last line
NextWhere(n, Stop(_)) ==
  IF \E m \in (n + 1)..Len(seg.lines) : Stop(m)
    THEN CHOOSE m \in (n + 1)..Len(seg.lines) : Stop(m) /\ \A k \in (n + 1)..(m - 1) : ~Stop(k)
    ELSE Len(seg.lines) + 1

NextBoundary(n) == NextWhere(n, AcceptedBoundary)

IsMarkerOrBoundary(n) == Fact(n).marker \/ AcceptedBoundary(n)

SegmentEnd(n) == NextWhere(n, IsMarkerOrBoundary)

\* the joined text of lines a..b
TextOf(a, b) == JoinLines([n \in 1..(b - a + 1) |-> Chars[seg.lines[a + n - 1]]])

PageEntries == {seg.sections[n] : n \in {m \in 1..Len(seg.sections) : seg.sections[m].key # NAVIGATION_KEY}}

InSomePage(n) == \E e \in PageEntries : n \in e.src

\* the lines after boundary n are kept: there are some, and no marker line ends them
Committed(n) ==
  /\ AcceptedBoundary(n)
  /\ SegmentEnd(n) > n + 1
  /\ (SegmentEnd(n) > Len(seg.lines) \/ ~Fact(SegmentEnd(n)).marker)

IsLastOfItsName(n) ==
  \A m \in (n + 1)..Len(seg.lines) : Committed(m) => Fact(m).clean # Fact(n).clean

\* the document of the spec's segmentation example
ExampleDoc == <<FooterLine, HomeLine, ContentLine, AboutLine, MoreLine>>

ExampleSections ==
  << [key |-> <<"H","o","m","e"," ","P","a","g","e">>, value |-> Chars[ContentLine], src |-> {3}],
     [key |-> <<"A","b","o","u","t"," ","P","a","g","e">>, value |-> Chars[MoreLine], src |-> {5}] >>

\* C1 as stated: lines before the marker are in no page; every boundary line opens a page
\* named by its cleaned text whose content is the lines up to the next boundary (or marker
\* line); the example document yields its two pages; '00_Ignore' is never a key
SegmentationAsClaimed ==
  Returned =>
    /\ \A n \in 1..Len(seg.lines) : ~AfterMarker(n) => ~InSomePage(n)
    /\ \A n \in 1..Len(seg.lines) :
         (AcceptedBoundary(n) /\ SegmentEnd(n) > n + 1) =>
           /\ HasKey(seg.sections, Fact(n).clean)
           /\ Get(seg.sections, Fact(n).clean).value = TextOf(n + 1, SegmentEnd(n) - 1)
    /\ seg.lines = ExampleDoc => seg.sections = ExampleSections
    /\ ~HasKey(seg.sections, IGNORE_PAGE)

\* C1 as amended: the content of a boundary's page is the lines up to the next boundary or
\* marker line, provided there is such a line, no marker line ends them and no later kept
\* page has the same name; the map holds no other page
SegmentationTheorem ==
  Returned =>
    /\ \A n \in 1..Len(seg.lines) : ~AfterMarker(n) => ~InSomePage(n)
    /\ \A n \in 1..Len(seg.lines) :
         (Committed(n) /\ IsLastOfItsName(n)) =>
           /\ HasKey(seg.sections, Fact(n).clean)
           /\ Get(seg.sections, Fact(n).clean) =
                [key |-> Fact(n).clean,
                 value |-> TextOf(n + 1, SegmentEnd(n) - 1),
                 src |-> (n + 1)..(SegmentEnd(n) - 1)]
    /\ {e.key : e \in PageEntries} = {Fact(n).clean : n \in {m \in 1..Len(seg.lines) : Committed(m)}}
    /\ seg.lines = ExampleDoc => seg.sections = ExampleSections
    /\ ~HasKey(seg.sections, IGNORE_PAGE)

\* the example document has been segmented into its two pages
SegmentationWitness ==
  seg.pc = "done" /\ seg.lines = ExampleDoc /\ Len(seg.sections) = 2 /\ Len(seg.posts) = 2

\* a later page of the same name has replaced an earlier one
SegmentationOverwriteWitness ==
  /\ Returned
  /\ \E n \in 1..Len(seg.lines) : Committed(n) /\ ~IsLastOfItsName(n)

\* C4: no input line is part of the accumulated content of two sections
SectionsNeverOverlap ==
  Returned =>
    \A a, b \in 1..Len(seg.sections) : a # b => seg.sections[a].src \cap seg.sections[b].src = {}

\* C5: a heading rejected for an excluded keyword, and the lines after it up to the next
\* accepted boundary, are in the content of no committed page
ExcludedSectionDiscarded ==
  Returned =>
    \A n \in 1..Len(seg.lines) :
      RejectedHeading(n) => \A m \in n..(NextBoundary(n) - 1) : ~InSomePage(m)

(***************************************************************************)
(* parse_page_content and its helpers.                                     *)
(*                                                                         *)
(* A value that may be None is a record [found, val]; Python's truth test  *)
(* of it is Truthy.                                                        *)
(***************************************************************************)
DEFAULT_PHONE_NUMBER == <<"5","5","5","-","5","5","5","-","5","5","5","5">>

HOW_CAN_WE_HELP == <<"h","o","w"," ","c","a","n"," ","w","e"," ","h","e","l","p">>

HERO_IMAGE == <<"h","e","r","o"," ","i","m","a","g","e">>

PARA_SUBHEADER == <<"p","a","r","a","_","s","u","b","h","e","a","d","e","r">>

PROMO == <<"p","r","o","m","o">>

HERO_PROMO == <<"h","e","r","o","_","p","r","o","m","o">>

CTA == <<"c","t","a">>

CTA_1 == <<"c","t","a","_","1">>

CTA_2 == <<"c","t","a","_","2">>

SPACE_PAGE == <<" ","P","a","g","e">>

HTTP == <<"h","t","t","p">>

\* "{{ site.phone }}"
SITE_PHONE == <<"{","{"," ","s","i","t","e",".","p","h","o","n","e"," ","}","}">>

None == [found |-> FALSE, val |-> <<>>]

Some(v) == [found |-> TRUE, val |-> v]

\* if r:
Truthy(r) == r.found /\ r.val # <<>>

\* a or b
Or(a, b) == IF Truthy(a) THEN a ELSE b

\* the first index >= i at which p occurs in s, or 0
FindFrom(s, p, i) == FirstFrom(s, i, LAMBDA j : MatchAt(s, p, j))

Find(s, p) == FindFrom(s, p, 1)

\* re.sub(old, new, s, flags=re.IGNORECASE) for a literal lower-case old
RECURSIVE ReplaceIgnoreCaseFrom(_, _, _, _)
RECURSIVE ReplaceIgnoreCaseAt(_, _, _, _, _)
ReplaceIgnoreCaseAt(s, old, new, i, k) ==
  IF k = 0 THEN From(s, i)
  ELSE SubSeq(s, i, k - 1) \o new \o ReplaceIgnoreCaseFrom(s, old, new, k + Len(old))

ReplaceIgnoreCaseFrom(s, old, new, i) ==
  ReplaceIgnoreCaseAt(s, old, new, i, FindFrom(Lower(s), old, i))

ReplaceIgnoreCase(s, old, new) == ReplaceIgnoreCaseFrom(s, old, new, 1)

clean_body_line(text) ==
  Replace(Replace(Replace(Strip(text), <<"\\","_">>, <<"_">>), <<"\\","[">>, <<"[">>),
          <<"\\","]">>, <<"]">>)

\* where "](http", one or more characters other than ")" and then ")" start
LinkUrlAt(v, c) ==
  /\ MatchAt(v, <<"]","(">> \o HTTP, c)
  /\ c + 6 <= Len(v)
  /\ v[c + 6] # ")"
  /\ IndexFrom(v, ")", c + 6) > 0

\* the "]" that closes the link text of the leftmost match, given the first "[" (0: none)
LinkUrlClose(v, a) ==
  IF a = 0 THEN 0 ELSE FirstFrom(v, a + 1, LAMBDA c : LinkUrlAt(v, c))

LinkUrlFrom(v, c) ==
  IF c = 0 THEN None ELSE Some(SubSeq(v, c + 2, IndexFrom(v, ")", c + 6) - 1))

\* re.search(r'\[.*?\]\((http[^)]+)\)', v), group 1
MarkdownLinkUrl(v) == LinkUrlFrom(v, LinkUrlClose(v, IndexFrom(v, "[", 1)))

\* the characters that end a bare url: [\s<>")\]]
UrlStop == Whitespace \cup {"<", ">", "\"", ")", "]"}

\* https?://[^\s<>")\]]+ matches at i
BareUrlAt(v, i) ==
  \/ MatchAt(v, HTTP \o <<"s",":","/","/">>, i) /\ i + 8 <= Len(v) /\ v[i + 8] \notin UrlStop
  \/ MatchAt(v, HTTP \o <<":","/","/">>, i) /\ i + 7 <= Len(v) /\ v[i + 7] \notin UrlStop

\* the url that starts at i and runs up to the stop character at e (0: to the end)
BareUrlBetween(v, i, e) == SubSeq(v, i, IF e = 0 THEN Len(v) ELSE e - 1)

BareUrlFrom(v, i) ==
  IF i = 0 THEN None
  ELSE Some(BareUrlBetween(v, i, FirstFrom(v, i, LAMBDA j : v[j] \in UrlStop)))

\* re.search(r'(https?://[^\s<>")\]]+)', v), group 1
BareUrl(v) == BareUrlFrom(v, FirstFrom(v, 1, LAMBDA i : BareUrlAt(v, i)))

\* "[" tag_name "]"
TagPattern(tag_name) == <<"[">> \o tag_name \o <<"]">>

\* group 1 of \[tag_name\].*?(\S.*) in s, stripped, given where the tag starts (0: nowhere)
RawTagValue(s, tag_name, k) ==
  IF k = 0 \/ Strip(From(s, k + Len(tag_name) + 2)) = <<>>
    THEN None
    ELSE Some(Strip(From(s, k + Len(tag_name) + 2)))

\* the body of "if match:" in extract_tag_value
ValueOfRaw(raw, extract_url) ==
  IF ~raw.found THEN None
  ELSE IF extract_url /\ MarkdownLinkUrl(raw.val).found THEN MarkdownLinkUrl(raw.val)
  ELSE IF extract_url /\ BareUrl(raw.val).found THEN BareUrl(raw.val)
  ELSE Some(clean_markdown_link(raw.val))

\* pattern.search on the line without backslashes
SearchTag(s, tag_name, extract_url) ==
  ValueOfRaw(RawTagValue(s, tag_name, Find(Lower(s), TagPattern(tag_name))), extract_url)

extract_tag_value(line, tag_name, extract_url) ==
  SearchTag(RemoveChars(line, {"\\"}), tag_name, extract_url)

\* where the match of \[.*?promo.*?\] that starts at a ends, or 0
PromoTagEndAfter(s, b) == IF b = 0 THEN 0 ELSE IndexFrom(s, "]", b + Len(PROMO))

PromoTagEnd(s, a) ==
  IF s[a] = "[" THEN PromoTagEndAfter(s, FindFrom(Lower(s), PROMO, a + 1)) ELSE 0

RECURSIVE RemovePromoTagsFrom(_, _)
RECURSIVE RemovePromoTagsAt(_, _, _)
RemovePromoTagsAt(s, i, a) ==
  IF a = 0 THEN From(s, i)
  ELSE SubSeq(s, i, a - 1) \o RemovePromoTagsFrom(s, PromoTagEnd(s, a) + 1)

RemovePromoTagsFrom(s, i) ==
  RemovePromoTagsAt(s, i, FirstFrom(s, i, LAMBDA a : PromoTagEnd(s, a) > 0))

\* re.sub(r'\[.*?promo.*?\]', '', s, flags=re.IGNORECASE)
RemovePromoTags(s) == RemovePromoTagsFrom(s, 1)

\* n digits start at i
DigitsAt(t, i, n) == i + n - 1 <= Len(t) /\ \A j \in i..(i + n - 1) : t[j] \in Digits

\* re.search(r'\d{3}[-.\s]?\d{3}', t)
PhoneShaped(t) ==
  \E i \in 1..Len(t) :
    /\ DigitsAt(t, i, 3)
    /\ \/ DigitsAt(t, i + 3, 3)
       \/ i + 3 <= Len(t) /\ t[i + 3] \in {"-", "."} \cup Whitespace /\ DigitsAt(t, i + 4, 3)

\* val.replace('{', '').replace('}', '').strip().replace('**', '')
CtaText(val) == Replace(Strip(RemoveChars(val, {"{", "}"})), <<"*","*">>, <<>>)

\* the CTA record appended for cta_text
CtaOf(cta_text) ==
  IF Contains(cta_text, DEFAULT_PHONE_NUMBER)
    THEN [text |-> SITE_PHONE, link |-> "tel:{{ site.phone }}", icon |-> "phone",
          type |-> "button-1", scheme |-> "accent", reverse |-> "false"]
  ELSE IF PhoneShaped(cta_text)
    THEN [text |-> cta_text, link |-> "tel:{{ site.phone }}", icon |-> "phone",
          type |-> "button-1", scheme |-> "accent", reverse |-> "false"]
  ELSE [text |-> cta_text, link |-> "{{ site.contact_page }}", icon |-> "mark_email_unread",
        type |-> "button-1", scheme |-> "primary1", reverse |-> "true"]

\* extract_tag_value(stripped, 'cta') or extract_tag_value(stripped, 'cta_1') or extract_tag_value(stripped, 'cta_2')
CtaValue(stripped) ==
  Or(extract_tag_value(stripped, CTA, FALSE),
     Or(extract_tag_value(stripped, CTA_1, FALSE), extract_tag_value(stripped, CTA_2, FALSE)))

\* re.sub(r'^(#+)([^#\s])', r'\1 \2', cleaned), given the number h of leading "#"
SpaceAfterHashes(cleaned, h) ==
  IF h >= 1 /\ h < Len(cleaned) /\ cleaned[h + 1] \notin Whitespace
    THEN SubSeq(cleaned, 1, h) \o <<" ">> \o From(cleaned, h + 1)
    ELSE cleaned

\* the body line made of stripped
BodyLine(stripped) ==
  SpaceAfterHashes(clean_body_line(stripped), LeadCount(clean_body_line(stripped), {"#"}))

\* re.match(r'^\d+\.\s+', s), given the number d of leading digits
NumberedAt(s, d) == d >= 1 /\ d + 2 <= Len(s) /\ s[d + 1] = "." /\ s[d + 2] \in Whitespace

\* re.match(r'^[\-\*]\s+', s) or re.match(r'^\d+\.\s+', s)
IsListLine(s) ==
  \/ Len(s) >= 2 /\ s[1] \in {"-", "*"} /\ s[2] \in Whitespace
  \/ NumberedAt(s, LeadCount(s, Digits))

\* startswith(('http', 'https'))
IsUrl(u) == StartsWith(u, HTTP)

\* the table's value at n, or u itself when no key matched (n = 0)
ResolvedAt(u, hyperlink_map, n) == IF n = 0 THEN u ELSE hyperlink_map[n].value

\* a lookup that stops after the test for an equal key
ResolveHeroUrlExactOnly(final_url, hyperlink_map) ==
  IF IsUrl(final_url) THEN final_url
  ELSE IF HasKey(hyperlink_map, final_url) THEN Get(hyperlink_map, final_url).value
  ELSE final_url

\* final_url after the lookup in hyperlink_map, a dict kept as the sequence of its items
ResolveHeroUrl(final_url, hyperlink_map) ==
  IF IsUrl(final_url) THEN final_url
  ELSE IF HasKey(hyperlink_map, final_url) THEN Get(hyperlink_map, final_url).value
  ELSE ResolvedAt(final_url, hyperlink_map,
                  FirstFrom(hyperlink_map, 1,
                            LAMBDA n : \/ Contains(hyperlink_map[n].key, final_url)
                                       \/ Contains(final_url, hyperlink_map[n].key)))

\* clean_title = page_title.replace("#", "").replace(" Page", "").strip()
CleanTitle(page_title) == Strip(Replace(RemoveChars(page_title, {"#"}), SPACE_PAGE, <<>>))

(***************************************************************************)
(* The pages parse_page_content is run on: a title, a hyperlink table and  *)
(* every sequence of at most MaxPageLines lines over a set of lines.       *)
(***************************************************************************)
MaxPageLines == 4

\* no hyperlink was found in the document
NoLinks == <<>>

\* hyperlinks_map, in insertion order
ImageLinks ==
  <<[key |-> <<"l","o","g","o">>, value |-> <<"h","t","t","p","s",":","/","/","c","d","n",".","i","o","/","l","o","g","o">>],
    [key |-> <<"h","e","r","o">>, value |-> <<"h","t","t","p","s",":","/","/","c","d","n",".","i","o","/","h","e","r","o">>]>>

CtaScenario ==
  [page_title |-> <<"H","o","m","e"," ","P","a","g","e">>, hyperlink_map |-> NoLinks,
   lines |-> {"[cta] Call 555-555-5555 now",
              "[cta_1] Get a free quote",
              "[CTA_2] dial 123 456 today",
              "[cta_3] Other",
              "[cta] {**Book**}"}]

CtaModesScenario ==
  [page_title |-> <<"H","o","m","e"," ","P","a","g","e">>, hyperlink_map |-> NoLinks,
   lines |-> {"## How can we help?",
              "[cta] Get a free quote",
              "# [cta] Book now",
              "[cta]",
              "## Next"}]

HeroScenario ==
  [page_title |-> <<"H","o","m","e"," ","P","a","g","e">>, hyperlink_map |-> ImageLinks,
   lines |-> {"[hero image] hero",
              "[hero image] her",
              "[Hero Image] hero logo",
              "[hero image] none",
              "[hero image] [pic](http://x.io/b)"}]

HeroModesScenario ==
  [page_title |-> <<"H","O","M","E"," ","P","A","G","E">>, hyperlink_map |-> ImageLinks,
   lines |-> {"## How can we help?",
              "[hero image] https://x.io/a.png",
              "# [hero image] hero",
              "[hero image]",
              "## Next"}]

BodyScenario ==
  [page_title |-> <<"H","o","m","e"," ","P","a","g","e">>, hyperlink_map |-> NoLinks,
   lines |-> {"Home",
              "## Welcome",
              "###Details",
              "Some text",
              ""}]

ListScenario ==
  [page_title |-> <<"H","o","m","e"," ","p","a","g","e">>, hyperlink_map |-> NoLinks,
   lines |-> {"- item one",
              "* item two",
              "1. first",
              "Some text",
              "## Welcome"}]

BoxScenario ==
  [page_title |-> <<"H","o","m","e"," ","P","a","g","e">>, hyperlink_map |-> NoLinks,
   lines |-> {"## How can we help?",
              "[p] Pick a service",
              "Drain Cleaning",
              "### Other",
              "## Next"}]

TagScenario ==
  [page_title |-> <<"H","o","m","e"," ","P","a","g","e">>, hyperlink_map |-> NoLinks,
   lines |-> {"[para_subheader] **Fast** service",
              "[promo_1] $50 off",
              "[hero_promo] Free **estimate**",
              "[para_subheader]",
              "snake\\_case \\[x\\]"}]

PageScenarios ==
  {CtaScenario,
   CtaModesScenario,
   HeroScenario,
   HeroModesScenario,
   BodyScenario,
   ListScenario,
   BoxScenario,
   TagScenario}

PageSampleLines == UNION {sc.lines : sc \in PageScenarios}

\* the characters of every sample line
PageChars ==
  ("[cta] Call 555-555-5555 now" :> <<"[","c","t","a","]"," ","C","a","l","l"," ","5","5","5","-","5","5","5","-","5","5","5","5"," ","n","o","w">>)
  @@ ("[cta_1] Get a free quote" :> <<"[","c","t","a","_","1","]"," ","G","e","t"," ","a"," ","f","r","e","e"," ","q","u","o","t","e">>)
  @@ ("[CTA_2] dial 123 456 today" :> <<"[","C","T","A","_","2","]"," ","d","i","a","l"," ","1","2","3"," ","4","5","6"," ","t","o","d","a","y">>)
  @@ ("[cta_3] Other" :> <<"[","c","t","a","_","3","]"," ","O","t","h","e","r">>)
  @@ ("[cta] {**Book**}" :> <<"[","c","t","a","]"," ","{","*","*","B","o","o","k","*","*","}">>)
  @@ ("## How can we help?" :> <<"#","#"," ","H","o","w"," ","c","a","n"," ","w","e"," ","h","e","l","p","?">>)
  @@ ("[cta] Get a free quote" :> <<"[","c","t","a","]"," ","G","e","t"," ","a"," ","f","r","e","e"," ","q","u","o","t","e">>)
  @@ ("# [cta] Book now" :> <<"#"," ","[","c","t","a","]"," ","B","o","o","k"," ","n","o","w">>)
  @@ ("[cta]" :> <<"[","c","t","a","]">>)
  @@ ("## Next" :> <<"#","#"," ","N","e","x","t">>)
  @@ ("[hero image] hero" :> <<"[","h","e","r","o"," ","i","m","a","g","e","]"," ","h","e","r","o">>)
  @@ ("[hero image] her" :> <<"[","h","e","r","o"," ","i","m","a","g","e","]"," ","h","e","r">>)
  @@ ("[Hero Image] hero logo" :> <<"[","H","e","r","o"," ","I","m","a","g","e","]"," ","h","e","r","o"," ","l","o","g","o">>)
  @@ ("[hero image] none" :> <<"[","h","e","r","o"," ","i","m","a","g","e","]"," ","n","o","n","e">>)
  @@ ("[hero image] [pic](http://x.io/b)" :> <<"[","h","e","r","o"," ","i","m","a","g","e","]"," ","[","p","i","c","]","(","h","t","t","p",":","/","/","x",".","i","o","/","b",")">>)
  @@ ("[hero image] https://x.io/a.png" :> <<"[","h","e","r","o"," ","i","m","a","g","e","]"," ","h","t","t","p","s",":","/","/","x",".","i","o","/","a",".","p","n","g">>)
  @@ ("# [hero image] hero" :> <<"#"," ","[","h","e","r","o"," ","i","m","a","g","e","]"," ","h","e","r","o">>)
  @@ ("[hero image]" :> <<"[","h","e","r","o"," ","i","m","a","g","e","]">>)
  @@ ("Home" :> <<"H","o","m","e">>)
  @@ ("## Welcome" :> <<"#","#"," ","W","e","l","c","o","m","e">>)
  @@ ("###Details" :> <<"#","#","#","D","e","t","a","i","l","s">>)
  @@ ("Some text" :> <<"S","o","m","e"," ","t","e","x","t">>)
  @@ ("" :> <<>>)
  @@ ("- item one" :> <<"-"," ","i","t","e","m"," ","o","n","e">>)
  @@ ("* item two" :> <<"*"," ","i","t","e","m"," ","t","w","o">>)
  @@ ("1. first" :> <<"1","."," ","f","i","r","s","t">>)
  @@ ("[p] Pick a service" :> <<"[","p","]"," ","P","i","c","k"," ","a"," ","s","e","r","v","i","c","e">>)
  @@ ("Drain Cleaning" :> <<"D","r","a","i","n"," ","C","l","e","a","n","i","n","g">>)
  @@ ("### Other" :> <<"#","#","#"," ","O","t","h","e","r">>)
  @@ ("[para_subheader] **Fast** service" :> <<"[","p","a","r","a","_","s","u","b","h","e","a","d","e","r","]"," ","*","*","F","a","s","t","*","*"," ","s","e","r","v","i","c","e">>)
  @@ ("[promo_1] $50 off" :> <<"[","p","r","o","m","o","_","1","]"," ","$","5","0"," ","o","f","f">>)
  @@ ("[hero_promo] Free **estimate**" :> <<"[","h","e","r","o","_","p","r","o","m","o","]"," ","F","r","e","e"," ","*","*","e","s","t","i","m","a","t","e","*","*">>)
  @@ ("[para_subheader]" :> <<"[","p","a","r","a","_","s","u","b","h","e","a","d","e","r","]">>)
  @@ ("snake\\_case \\[x\\]" :> <<"s","n","a","k","e","\\","_","c","a","s","e"," ","\\","[","x","\\","]">>)

(***************************************************************************)
(* What one iteration of the loop of parse_page_content computes from the  *)
(* line alone: stripped, line_lower and the tests and values made of them. *)
(***************************************************************************)
PageTests(stripped, line_lower) ==
  [blank |-> stripped = <<>>,
   enters_box |-> Contains(line_lower, HOW_CAN_WE_HELP) /\ Contains(stripped, <<"#","#">>),
   box_heading |-> clean_body_line(Replace(stripped, <<"#","#">>, <<>>)),
   leaves_box |-> /\ StartsWith(stripped, <<"#"," ">>) \/ StartsWith(stripped, <<"#","#"," ">>)
                  /\ ~Contains(line_lower, HOW_CAN_WE_HELP),
   is_p |-> Contains(line_lower, <<"[","p","]">>),
   sub_heading |-> Strip(ReplaceIgnoreCase(stripped, <<"[","p","]">>, <<>>)),
   has_bracket |-> Contains(stripped, <<"[">>),
   card |-> [title |-> clean_body_line(stripped), slug |-> to_kebab_case(clean_body_line(stripped))],
   starts_h2 |-> StartsWith(stripped, <<"#","#">>),
   is_h1 |-> StartsWith(stripped, <<"#"," ">>),
   nav_lower |-> Lower(clean_nav_text(stripped)),
   hero |-> Contains(line_lower, TagPattern(HERO_IMAGE)),
   hero_val |-> extract_tag_value(stripped, HERO_IMAGE, TRUE),
   sub |-> Contains(line_lower, TagPattern(PARA_SUBHEADER)),
   sub_val |-> extract_tag_value(stripped, PARA_SUBHEADER, FALSE),
   promo |-> \/ Contains(line_lower, <<"[">> \o PROMO)
             \/ Contains(line_lower, TagPattern(HERO_PROMO)),
   promo_text |-> Replace(clean_nav_text(RemovePromoTags(stripped)), <<"*","*">>, <<>>),
   cta |-> Contains(line_lower, <<"[">> \o CTA),
   cta_val |-> CtaValue(stripped),
   has_h2 |-> Contains(stripped, <<"#","#">>),
   cleaned |-> BodyLine(stripped)]

\* line_lower = stripped.lower().replace('\\', '')
StrippedPageFacts(stripped) == PageTests(stripped, RemoveChars(Lower(stripped), {"\\"}))

\* stripped = line.strip()
PageFactsOf(line) == StrippedPageFacts(Strip(line))

\* the facts of every sample line, computed once
PageFacts == [line \in PageSampleLines |-> PageFactsOf(PageChars[line])] @@ <<>>

Last(s) == s[Len(s)]

\* the frame with the way the current line went recorded (route is a history field)
Routed(p, name) == [p EXCEPT !.route = Append(@, name)]

\* a blank line: a separator in the body, once the body has started
AfterBlank(p) ==
  IF p.is_body_started /\ ~p.is_service_box /\ p.body_lines # <<>> /\ Last(p.body_lines) # <<>>
    THEN Routed([p EXCEPT !.body_lines = Append(@, <<>>)], "blank")
    ELSE Routed(p, "blank")

\* a '##' line with 'how can we help': the service box is (re)started
OpenBox(p, f) ==
  Routed([p EXCEPT !.is_service_box = TRUE,
                   !.service_box = [present |-> TRUE, heading |-> f.box_heading,
                                    sub_heading |-> <<>>, cards |-> <<>>]], "box_open")

\* a line in service-box mode that does not end the mode
InBox(p, f) ==
  IF f.is_p THEN Routed([p EXCEPT !.service_box.sub_heading = f.sub_heading], "box_sub")
  ELSE IF ~f.has_bracket THEN Routed([p EXCEPT !.service_box.cards = Append(@, f.card)], "box_card")
  ELSE Routed(p, "box_ignored")

\* before the body starts, an H1 line and a line that repeats the title are dropped
SkippedBeforeBody(p, f) ==
  ~p.is_body_started /\ ~f.starts_h2 /\ (f.is_h1 \/ f.nav_lower = Lower(p.title))

\* the image task of a [hero image] line
ImageTask(p, f) ==
  [url |-> ResolveHeroUrl(Strip(f.hero_val.val), p.hyperlink_map), filename |-> p.page_slug]

\* a blank entry before a heading that follows a non-blank body line
WithHeadingGap(body_lines, cleaned) ==
  IF StartsWith(cleaned, <<"#">>) /\ body_lines # <<>> /\ Last(body_lines) # <<>>
    THEN Append(body_lines, <<>>)
    ELSE body_lines

\* a mutation of the list gap: no blank entry is inserted
WithoutListGap(body_lines, cleaned) == body_lines

\* a blank entry between two body lines unless both are list lines or the new one is a heading
WithListGap(body_lines, cleaned) ==
  IF /\ body_lines # <<>> /\ Last(body_lines) # <<>>
     /\ ~(IsListLine(cleaned) /\ IsListLine(Last(body_lines)))
     /\ ~StartsWith(cleaned, <<"#">>)
    THEN Append(body_lines, <<>>)
    ELSE body_lines

AppendBody(body_lines, cleaned) ==
  Append(WithListGap(WithHeadingGap(body_lines, cleaned), cleaned), cleaned)

\* the tag dispatch, and the body for a line that carries no tag
Dispatch(p, f) ==
  IF f.hero
    THEN IF Truthy(f.hero_val)
           THEN Routed([p EXCEPT !.image_queue = Append(@, ImageTask(p, f))], "hero")
           ELSE Routed(p, "hero")
  ELSE IF f.sub
    THEN IF Truthy(f.sub_val)
           THEN Routed([p EXCEPT !.subheader = Replace(f.sub_val.val, <<"*","*">>, <<>>)], "subheader")
           ELSE Routed(p, "subheader")
  ELSE IF f.promo
    THEN Routed([p EXCEPT !.promos = Append(@, f.promo_text)], "promo")
  ELSE IF f.cta
    THEN IF Truthy(f.cta_val)
           THEN Routed([p EXCEPT !.ctas = Append(@, CtaOf(CtaText(f.cta_val.val)))], "cta")
           ELSE Routed(p, "cta")
  ELSE Routed([p EXCEPT !.is_body_started = @ \/ f.has_h2,
                        !.body_lines = AppendBody(@, f.cleaned)], "body")

\* one iteration of "for line in lines"
AfterLine(p, f) ==
  IF f.blank THEN AfterBlank(p)
  ELSE IF f.enters_box THEN OpenBox(p, f)
  ELSE IF p.is_service_box /\ ~f.leaves_box THEN InBox(p, f)
  ELSE IF SkippedBeforeBody(p, f) THEN Routed([p EXCEPT !.is_service_box = FALSE], "skipped")
  ELSE Dispatch([p EXCEPT !.is_service_box = FALSE, !.is_body_started = @ \/ f.starts_h2], f)

\* the fields of the front matter and the body that follows it
FinalContent(p) ==
  [title |-> p.title, image |-> p.hero_image, paragraph |-> p.subheader,
   buttons |-> [n \in 1..Len(p.ctas) |->
                  [cta_link |-> p.ctas[n].link, cta_text |-> p.ctas[n].text,
                   cta_icon |-> p.ctas[n].icon, cta_type |-> p.ctas[n].type,
                   cta_color_scheme |-> p.ctas[n].scheme,
                   cta_reverse |-> p.ctas[n].reverse = "true"]],
   promos |-> p.promos, promos_commented_out |-> p.promos = <<>>,
   body |-> JoinLines(p.body_lines)]

\* the locals of parse_page_content at the start of the loop
PageFrame(page_title, hyperlink_map, lines) ==
  [pc |-> "lines", page_title |-> page_title, hyperlink_map |-> hyperlink_map,
   lines |-> lines, i |-> 1,
   title |-> CleanTitle(page_title), page_slug |-> to_kebab_case(CleanTitle(page_title)),
   hero_image |-> to_kebab_case(CleanTitle(page_title)),
   subheader |-> <<>>, ctas |-> <<>>, promos |-> <<>>, body_lines |-> <<>>,
   service_box |-> [present |-> FALSE, heading |-> <<>>, sub_heading |-> <<>>, cards |-> <<>>],
   is_body_started |-> FALSE, is_service_box |-> FALSE,
   image_queue |-> <<>>, route |-> <<>>, final_content |-> <<>>]

\* the frame for each of the given line sequences
FramesOver(frame, docs) == {[frame EXCEPT !.lines = d] : d \in docs}

PageInit ==
  /\ page \in UNION {FramesOver(PageFrame(sc.page_title, sc.hyperlink_map, <<>>),
                                 StringsUpTo(sc.lines, MaxPageLines)) : sc \in PageScenarios}
  /\ kebab = Idle /\ seg = Idle /\ nav = Idle /\ rev = Idle /\ img = Idle

PageLineStep ==
  /\ page.pc = "lines"
  /\ page.i <= Len(page.lines)
  /\ page' = [AfterLine(page, PageFacts[page.lines[page.i]]) EXCEPT !.i = @ + 1]
  /\ UNCHANGED <<kebab, seg, nav, rev, img>>

\* after the loop: the front matter is rendered and (final_content, service_box) returned
PageReturn ==
  /\ page.pc = "lines"
  /\ page.i > Len(page.lines)
  /\ page' = [page EXCEPT !.pc = "returned", !.final_content = FinalContent(page)]
  /\ UNCHANGED <<kebab, seg, nav, rev, img>>

PageNext == PageLineStep \/ PageReturn

SpecPage == PageInit /\ [][PageNext]_vars

(***************************************************************************)
(* Properties of parse_page_content.                                       *)
(***************************************************************************)
\* the facts of the line the loop is about to process
CurrentFacts == PageFacts[page.lines[page.i]]

\* parse_page_content is about to process a line
AtLine == page.pc = "lines" /\ page.i <= Len(page.lines)

PhoneCta ==
  [text |-> SITE_PHONE, link |-> "tel:{{ site.phone }}", icon |-> "phone",
   type |-> "button-1", scheme |-> "accent", reverse |-> "false"]

ContactCta(value) ==
  [text |-> value, link |-> "{{ site.contact_page }}", icon |-> "mark_email_unread",
   type |-> "button-1", scheme |-> "primary1", reverse |-> "true"]

\* the CTA the classification rule gives for a value
ClassifiedCta(value) ==
  IF Contains(value, DEFAULT_PHONE_NUMBER) \/ PhoneShaped(value)
    THEN PhoneCta
    ELSE ContactCta(value)

\* C6: whenever a [cta...] line appends a CTA, the CTA is a phone CTA with all the phone
\* fields (display text '{{ site.phone }}', link 'tel:{{ site.phone }}', phone icon, accent
\* scheme, no reverse) if the value contains the default phone number or a phone-shaped
\* digit sequence, and a contact CTA showing the value otherwise
CtaClassification ==
  [][(AtLine /\ page'.ctas # page.ctas) =>
       page'.ctas = Append(page.ctas, ClassifiedCta(CtaText(CurrentFacts.cta_val.val)))]_vars

\* the line about to be processed is a [hero image] line with a non-empty extracted value
AtHeroLine == AtLine /\ CurrentFacts.hero /\ Truthy(CurrentFacts.hero_val)

\* the value extracted from the line about to be processed
HeroValue == Strip(CurrentFacts.hero_val.val)

\* key n of the table contains the value or is contained in it
KeyMatches(n, value) ==
  \/ Contains(page.hyperlink_map[n].key, value)
  \/ Contains(value, page.hyperlink_map[n].key)

SomeKeyMatches(value) == \E n \in 1..Len(page.hyperlink_map) : KeyMatches(n, value)

\* url is what the resolution rule, as claimed, allows for the value
UrlAsClaimed(url, value) ==
  IF IsUrl(value) THEN url = value
  ELSE IF HasKey(page.hyperlink_map, value) THEN url = Get(page.hyperlink_map, value).value
  ELSE IF SomeKeyMatches(value)
    THEN /\ \E n \in 1..Len(page.hyperlink_map) :
              KeyMatches(n, value) /\ url = page.hyperlink_map[n].value
         /\ url # value
  ELSE url = value

\* url is the value of the first key, in table order, that matches
UrlOfFirstMatch(url, value) ==
  IF IsUrl(value) THEN url = value
  ELSE IF HasKey(page.hyperlink_map, value) THEN url = Get(page.hyperlink_map, value).value
  ELSE IF SomeKeyMatches(value)
    THEN \E n \in 1..Len(page.hyperlink_map) :
           /\ KeyMatches(n, value) /\ url = page.hyperlink_map[n].value
           /\ \A m \in 1..(n - 1) : ~KeyMatches(m, value)
  ELSE url = value

\* this step appends exactly one image task, named after the page slug
QueuesOneTask ==
  /\ Len(page'.image_queue) = Len(page.image_queue) + 1
  /\ SubSeq(page'.image_queue, 1, Len(page.image_queue)) = page.image_queue
  /\ Last(page'.image_queue).filename = page.page_slug

\* the line about to be processed gets as far as the tag dispatch: it does not open the
\* service box, is not taken by service-box mode and is not dropped before the body starts
ReachesDispatch ==
  /\ ~CurrentFacts.enters_box
  /\ ~(page.is_service_box /\ ~CurrentFacts.leaves_box)
  /\ ~SkippedBeforeBody(page, CurrentFacts)

\* C8 as stated: every [hero image] line with a non-empty value queues exactly one image
\* task {url, filename = page slug} and never reaches the body; the url is the value of the
\* key equal to the value, else the value of a matching key (substring either way) and not
\* the literal text, else the literal text; the hyperlink table is left unchanged
HeroResolutionAsClaimed ==
  [][/\ AtHeroLine =>
          /\ QueuesOneTask
          /\ UrlAsClaimed(Last(page'.image_queue).url, HeroValue)
          /\ page'.body_lines = page.body_lines
     /\ AtLine => page'.hyperlink_map = page.hyperlink_map]_vars

\* C8: a [hero image] line with a non-empty value that reaches the tag dispatch queues
\* exactly one image task {url, filename = page slug}, whose url is the value itself if it
\* is a URL, else the value of the key equal to it, else the value of the first key in table
\* order that contains it or is contained in it, else the literal text; one that does not
\* reach the dispatch queues nothing; in both cases the line never reaches the body, and
\* the hyperlink table is left unchanged
HeroResolution ==
  [][/\ (AtHeroLine /\ ReachesDispatch) =>
          /\ QueuesOneTask
          /\ UrlOfFirstMatch(Last(page'.image_queue).url, HeroValue)
     /\ (AtHeroLine /\ ~ReachesDispatch) => page'.image_queue = page.image_queue
     /\ AtHeroLine => page'.body_lines = page.body_lines
     /\ AtLine => page'.hyperlink_map = page.hyperlink_map]_vars

\* the facts of the line processed last
LastFacts == PageFacts[page.lines[page.i - 1]]

\* a [hero image] line whose value is no URL and no key, but matches two keys by substring,
\* has just queued the value of the first of them
HeroResolutionWitness ==
  /\ page.pc = "lines" /\ page.i > 1
  /\ Last(page.route) = "hero"
  /\ Truthy(LastFacts.hero_val)
  /\ ~IsUrl(Strip(LastFacts.hero_val.val))
  /\ ~HasKey(page.hyperlink_map, Strip(LastFacts.hero_val.val))
  /\ KeyMatches(1, Strip(LastFacts.hero_val.val))
  /\ KeyMatches(2, Strip(LastFacts.hero_val.val))
  /\ Last(page.image_queue).url = page.hyperlink_map[1].value
  /\ Last(page.image_queue).filename = page.page_slug

\* a [hero image] line with a non-empty value was taken by service-box mode: nothing is queued
HeroIgnoredWitness ==
  /\ page.pc = "lines" /\ page.i > 1
  /\ Last(page.route) = "box_ignored"
  /\ LastFacts.hero /\ Truthy(LastFacts.hero_val)
  /\ page.image_queue = <<>>

(***************************************************************************)
(* The navigation lines generate_nav_yaml is run on: some leading lines,   *)
(* then each parent line followed by up to MaxChildren child lines.        *)
(***************************************************************************)
MaxChildren == 17

\* children[i:i + 8]: the size of a dropdown batch
ChunkSize == 8

\* child lines, all different
ChildLines ==
  <<"- Item 01", "- Item 02", "- Item 03", "- Item 04", "- Item 05", "- Item 06",
    "- Item 07", "- Item 08", "- Item 09", "- Item 10", "- Item 11", "- Item 12",
    "- Item 13", "- Item 14", "- Item 15", "- Item 16", "- Item 17", "- Item 18",
    "- Item 19", "- Item 20", "- Item 21", "- Item 22", "- Item 23", "- Item 24">>

PlainNav == [head |-> <<>>, parents |-> <<"Services">>]

NoisyNav == [head |-> <<"- Orphan", "Dev Note: internal", "---", "">>, parents |-> <<"**Services**", "About Us">>]

HrefNav == [head |-> <<>>, parents |-> <<"Promotions", "Contact Us">>]

RepeatedNav == [head |-> <<"* Star">>, parents |-> <<"Services", "Services">>]

NavScenarios == {PlainNav, NoisyNav, HrefNav, RepeatedNav}

\* the characters of every sample line
NavChars ==
  ("Services" :> <<"S","e","r","v","i","c","e","s">>)
  @@ ("- Orphan" :> <<"-"," ","O","r","p","h","a","n">>)
  @@ ("Dev Note: internal" :> <<"D","e","v"," ","N","o","t","e",":"," ","i","n","t","e","r","n","a","l">>)
  @@ ("---" :> <<"-","-","-">>)
  @@ ("" :> <<>>)
  @@ ("**Services**" :> <<"*","*","S","e","r","v","i","c","e","s","*","*">>)
  @@ ("About Us" :> <<"A","b","o","u","t"," ","U","s">>)
  @@ ("Promotions" :> <<"P","r","o","m","o","t","i","o","n","s">>)
  @@ ("Contact Us" :> <<"C","o","n","t","a","c","t"," ","U","s">>)
  @@ ("* Star" :> <<"*"," ","S","t","a","r">>)
  @@ ("- Item 01" :> <<"-"," ","I","t","e","m"," ","0","1">>)
  @@ ("- Item 02" :> <<"-"," ","I","t","e","m"," ","0","2">>)
  @@ ("- Item 03" :> <<"-"," ","I","t","e","m"," ","0","3">>)
  @@ ("- Item 04" :> <<"-"," ","I","t","e","m"," ","0","4">>)
  @@ ("- Item 05" :> <<"-"," ","I","t","e","m"," ","0","5">>)
  @@ ("- Item 06" :> <<"-"," ","I","t","e","m"," ","0","6">>)
  @@ ("- Item 07" :> <<"-"," ","I","t","e","m"," ","0","7">>)
  @@ ("- Item 08" :> <<"-"," ","I","t","e","m"," ","0","8">>)
  @@ ("- Item 09" :> <<"-"," ","I","t","e","m"," ","0","9">>)
  @@ ("- Item 10" :> <<"-"," ","I","t","e","m"," ","1","0">>)
  @@ ("- Item 11" :> <<"-"," ","I","t","e","m"," ","1","1">>)
  @@ ("- Item 12" :> <<"-"," ","I","t","e","m"," ","1","2">>)
  @@ ("- Item 13" :> <<"-"," ","I","t","e","m"," ","1","3">>)
  @@ ("- Item 14" :> <<"-"," ","I","t","e","m"," ","1","4">>)
  @@ ("- Item 15" :> <<"-"," ","I","t","e","m"," ","1","5">>)
  @@ ("- Item 16" :> <<"-"," ","I","t","e","m"," ","1","6">>)
  @@ ("- Item 17" :> <<"-"," ","I","t","e","m"," ","1","7">>)
  @@ ("- Item 18" :> <<"-"," ","I","t","e","m"," ","1","8">>)
  @@ ("- Item 19" :> <<"-"," ","I","t","e","m"," ","1","9">>)
  @@ ("- Item 20" :> <<"-"," ","I","t","e","m"," ","2","0">>)
  @@ ("- Item 21" :> <<"-"," ","I","t","e","m"," ","2","1">>)
  @@ ("- Item 22" :> <<"-"," ","I","t","e","m"," ","2","2">>)
  @@ ("- Item 23" :> <<"-"," ","I","t","e","m"," ","2","3">>)
  @@ ("- Item 24" :> <<"-"," ","I","t","e","m"," ","2","4">>)

NavSampleLines == DOMAIN NavChars

(***************************************************************************)
(* generate_nav_yaml.  nav_structure is a dict, kept as the sequence of    *)
(* its items [parent, children] in insertion order; yaml_output is kept as *)
(* the sequence of the entries written, one per parent.                    *)
(***************************************************************************)
PROMOTIONS == <<"P","r","o","m","o","t","i","o","n","s">>

ABOUT_US == <<"A","b","o","u","t"," ","U","s">>

CONTACT == <<"c","o","n","t","a","c","t">>

SERVICES_HREF == <<"/","s","e","r","v","i","c","e","s","/">>

PROMOTIONS_HREF == <<"/","p","r","o","m","o","t","i","o","n","s","/">>

CONTACT_US_HREF == <<"/","c","o","n","t","a","c","t","-","u","s","/">>

\* list_pattern.match(stripped): ^[\s]*[\-\*]\s+, given the number w of leading blanks
ListPatternAt(stripped, w) ==
  /\ w + 2 <= Len(stripped)
  /\ stripped[w + 1] \in {"-", "*"}
  /\ stripped[w + 2] \in Whitespace

\* what the first loop computes from a line alone
NavTests(stripped) ==
  [skipped |-> stripped = <<>> \/ Contains(stripped, DEV_NOTE),
   is_child |-> ListPatternAt(stripped, LeadCount(stripped, Whitespace)),
   clean_text |-> clean_nav_text(stripped)]

NavFactsOf(line) == NavTests(Strip(line))

\* the facts of every sample line, computed once
NavFacts == [line \in NavSampleLines |-> NavFactsOf(NavChars[line])] @@ <<>>

\* to_kebab_case of every cleaned sample line, computed once
KebabOfClean ==
  [text \in {NavFacts[line].clean_text : line \in NavSampleLines} |-> to_kebab_case(text)] @@ <<>>

\* where parent is in nav_structure, or 0
ParentIndex(nav_structure, parent) ==
  FirstFrom(nav_structure, 1, LAMBDA n : nav_structure[n].parent = parent)

\* nav_structure[current_parent].append(clean_text)
AppendChild(nav_structure, current_parent, clean_text) ==
  [n \in 1..Len(nav_structure) |->
     IF nav_structure[n].parent = current_parent
       THEN [nav_structure[n] EXCEPT !.children = Append(@, clean_text)]
       ELSE nav_structure[n]]

\* if current_parent not in nav_structure: nav_structure[current_parent] = []
AddParent(nav_structure, current_parent) ==
  IF ParentIndex(nav_structure, current_parent) = 0
    THEN Append(nav_structure, [parent |-> current_parent, children |-> <<>>])
    ELSE nav_structure

\* one iteration of the first loop
AfterNavLine(s, f) ==
  IF f.skipped \/ f.clean_text = <<>> THEN s
  ELSE IF f.is_child
    THEN IF Truthy(s.current_parent)
           THEN [s EXCEPT !.nav_structure = AppendChild(@, s.current_parent.val, f.clean_text)]
           ELSE s
  ELSE [s EXCEPT !.current_parent = Some(f.clean_text),
                 !.nav_structure = AddParent(@, f.clean_text)]

\* chunks as a mutation would make them: the remainder batch is dropped
ChunksWithoutRemainder(children) ==
  [c \in 1..(Len(children) \div ChunkSize) |->
     SubSeq(children, (c - 1) * ChunkSize + 1, c * ChunkSize)]

\* chunks = [children[i:i + 8] for i in range(0, len(children), 8)]
Chunks(children) ==
  [c \in 1..((Len(children) + ChunkSize - 1) \div ChunkSize) |->
     SubSeq(children, (c - 1) * ChunkSize + 1,
            IF c * ChunkSize < Len(children) THEN c * ChunkSize ELSE Len(children))]

\* the href of a child link
ChildHref(parent, child_kebab) ==
  IF parent = PROMOTIONS THEN PROMOTIONS_HREF
  ELSE IF parent = ABOUT_US THEN <<"/">> \o child_kebab \o <<"/">>
  ELSE SERVICES_HREF \o child_kebab \o <<"/">>

\* the links written for one chunk
ChunkLinks(parent, chunk) ==
  [n \in 1..Len(chunk) |-> [text |-> chunk[n], href |-> ChildHref(parent, KebabOfClean[chunk[n]])]]

\* the dropdown columns written for the chunks
Dropdown(parent, chunks) == [c \in 1..Len(chunks) |-> ChunkLinks(parent, chunks[c])]

\* what one iteration of the second loop writes for a parent
NavEntry(parent, children) ==
  [text |-> parent,
   href |-> IF Contains(to_kebab_case(parent), CONTACT) THEN CONTACT_US_HREF ELSE <<"#">>,
   has_dropdown |-> children # <<>>,
   dropdown |-> IF children = <<>> THEN <<>> ELSE Dropdown(parent, Chunks(children))]

\* head \o parent 1 \o its children \o parent 2 \o its children ...
RECURSIVE GroupsFrom(_, _, _)
GroupsFrom(parents, counts, n) ==
  IF n > Len(parents) THEN <<>>
  ELSE <<parents[n]>> \o SubSeq(ChildLines, 1, counts[n]) \o GroupsFrom(parents, counts, n + 1)

NavDocs ==
  UNION {{sc.head \o GroupsFrom(sc.parents, counts, 1) :
            counts \in [1..Len(sc.parents) -> 0..MaxChildren]} : sc \in NavScenarios}

NavInit ==
  /\ nav \in {[pc |-> "lines", lines |-> d, i |-> 1, nav_structure |-> <<>>,
               current_parent |-> None, j |-> 0, yaml_output |-> <<>>] : d \in NavDocs}
  /\ kebab = Idle /\ seg = Idle /\ page = Idle /\ rev = Idle /\ img = Idle

\* one iteration of "for line in lines"
NavLineStep ==
  /\ nav.pc = "lines"
  /\ nav.i <= Len(nav.lines)
  /\ nav' = [AfterNavLine(nav, NavFacts[nav.lines[nav.i]]) EXCEPT !.i = @ + 1]
  /\ UNCHANGED <<kebab, seg, page, rev, img>>

\* the first loop is over
NavLinesDone ==
  /\ nav.pc = "lines"
  /\ nav.i > Len(nav.lines)
  /\ nav' = [nav EXCEPT !.pc = "emit", !.j = 1]
  /\ UNCHANGED <<kebab, seg, page, rev, img>>

\* one iteration of "for parent in nav_structure"
NavEmitStep ==
  /\ nav.pc = "emit"
  /\ nav.j <= Len(nav.nav_structure)
  /\ nav' = [nav EXCEPT !.yaml_output = Append(@, NavEntry(nav.nav_structure[nav.j].parent,
                                                          nav.nav_structure[nav.j].children)),
                        !.j = @ + 1]
  /\ UNCHANGED <<kebab, seg, page, rev, img>>

\* return yaml_output
NavReturn ==
  /\ nav.pc = "emit"
  /\ nav.j > Len(nav.nav_structure)
  /\ nav' = [nav EXCEPT !.pc = "returned"]
  /\ UNCHANGED <<kebab, seg, page, rev, img>>

NavNext == NavLineStep \/ NavLinesDone \/ NavEmitStep \/ NavReturn

SpecNav == NavInit /\ [][NavNext]_vars

(***************************************************************************)
(* Navigation chunking, stated against the input lines: the parents and    *)
(* their children are read off the lines without nav_structure.            *)
(***************************************************************************)
NavFact(n) == NavFacts[nav.lines[n]]

NavTextAt(n) == NavFact(n).clean_text

Counted(n) == ~NavFact(n).skipped /\ NavTextAt(n) # <<>>

ParentLineAt(n) == Counted(n) /\ ~NavFact(n).is_child

ChildLineAt(n) == Counted(n) /\ NavFact(n).is_child

\* line n is the first parent line with its text
FirstSeen(n) ==
  /\ ParentLineAt(n)
  /\ \A m \in 1..(n - 1) : ParentLineAt(m) => NavTextAt(m) # NavTextAt(n)

\* the last parent line before line n, or 0
OwnerOf(n) ==
  CHOOSE p \in 0..(n - 1) :
    /\ p = 0 \/ ParentLineAt(p)
    /\ \A q \in (p + 1)..(n - 1) : ~ParentLineAt(q)

LineNumbers == [n \in 1..Len(nav.lines) |-> n]

TextsAt(numbers) == [k \in 1..Len(numbers) |-> NavTextAt(numbers[k])]

\* the parents in first-seen order
ParentsInOrder == TextsAt(SelectSeq(LineNumbers, LAMBDA n : FirstSeen(n)))

OwnedBy(parent, n) ==
  ChildLineAt(n) /\ OwnerOf(n) # 0 /\ NavTextAt(OwnerOf(n)) = parent

\* the children of a parent in their original order
ChildrenInOrder(parent) == TextsAt(SelectSeq(LineNumbers, LAMBDA n : OwnedBy(parent, n)))

BatchTexts(batch) == [k \in 1..Len(batch) |-> batch[k].text]

RECURSIVE BatchesFrom(_, _)
BatchesFrom(dropdown, c) ==
  IF c > Len(dropdown) THEN <<>>
  ELSE BatchTexts(dropdown[c]) \o BatchesFrom(dropdown, c + 1)

BatchSizes(dropdown) == [c \in 1..Len(dropdown) |-> Len(dropdown[c])]

CeilDiv(n, d) == IF n % d = 0 THEN n \div d ELSE n \div d + 1

\* the entry written for a parent has its children batched as claimed
BatchedAsClaimed(entry, children) ==
  IF children = <<>>
    THEN ~entry.has_dropdown /\ entry.dropdown = <<>>
    ELSE /\ entry.has_dropdown
         /\ Len(entry.dropdown) = CeilDiv(Len(children), 8)
         /\ \A c \in 1..Len(entry.dropdown) : Len(entry.dropdown[c]) <= 8
         /\ \A c \in 1..(Len(entry.dropdown) - 1) : Len(entry.dropdown[c]) = 8
         /\ BatchesFrom(entry.dropdown, 1) = children
         /\ Len(children) = 17 => BatchSizes(entry.dropdown) = <<8, 8, 1>>

EntryAsClaimed(entry, parent) ==
  entry.text = parent /\ BatchedAsClaimed(entry, ChildrenInOrder(parent))

EntriesOf(parents) ==
  /\ Len(nav.yaml_output) <= Len(parents)
  /\ nav.pc = "returned" => Len(nav.yaml_output) = Len(parents)
  /\ \A m \in 1..Len(nav.yaml_output) : EntryAsClaimed(nav.yaml_output[m], parents[m])

\* C9: the entries written are those of the parents in first-seen order;
\* a parent with n >= 1 children has them, in their original order, in
\* ceil(n/8) dropdown batches of at most 8, all but the last of exactly 8
\* (17 children: 8, 8, 1); a parent without children has no dropdown; no
\* child is lost or duplicated across the batches.
NavChunking == nav.pc \in {"emit", "returned"} => EntriesOf(ParentsInOrder)

\* a returned navigation with a parent of 17 children in batches 8, 8, 1, a
\* parent of 9 children and a parent without children
NavChunkingWitness ==
  /\ nav.pc = "returned"
  /\ \E m \in 1..Len(nav.yaml_output) : BatchSizes(nav.yaml_output[m].dropdown) = <<8, 8, 1>>
  /\ \E m \in 1..Len(nav.yaml_output) : ~nav.yaml_output[m].has_dropdown
  /\ Len(ParentsInOrder) = 2
  /\ \E n \in 1..Len(nav.lines) : ChildLineAt(n) /\ OwnerOf(n) = 0

\* a parent seen twice gathers the children of both places
NavRepeatedParentWitness ==
  /\ nav.pc = "returned"
  /\ Len(nav.yaml_output) = 1
  /\ BatchSizes(nav.yaml_output[1].dropdown) = <<8, 8, 8, 2>>
  /\ \E n \in 1..Len(nav.lines) : ParentLineAt(n) /\ ~FirstSeen(n)

(***************************************************************************)
(* The review sections generate_reviews_yaml is run on: every sequence of  *)
(* at most MaxRevLines lines over a set of lines, joined as process_docx   *)
(* joins the lines of a section, that the caller does not skip.            *)
(***************************************************************************)
MaxRevLines == 3

QuotedReviews ==
  {"**\"Great service!\" - Jane D. (Plumbing)**",
   "**\"Fast and friendly.\" - Bob K. (Drain Cleaning)**",
   "## Testimonials",
   "",
   "Thanks again"}

BufferedReviews ==
  {"They came the same day.",
   "Jane D. (Plumbing)",
   "We were very happy with it (Heating)",
   "Highly recommend! Bob (Cooling)",
   "  (Plumbing)"}

MarkedUpReviews ==
  {"**Great** work by [Acme](http://x.io) (Plumbing)",
   "'Nice job' Tom (Drains)",
   "\"Quick fix.\" **Al** (HVAC)",
   "Call us (today) now",
   "# Reviews (All)"}

RevScenarios == {QuotedReviews, BufferedReviews, MarkedUpReviews}

RevSampleLines == UNION RevScenarios

\* the characters of every sample line
RevChars ==
  ("**\"Great service!\" - Jane D. (Plumbing)**" :> <<"*","*","\"","G","r","e","a","t"," ","s","e","r","v","i","c","e","!","\""," ","-"," ","J","a","n","e"," ","D","."," ","(","P","l","u","m","b","i","n","g",")","*","*">>)
  @@ ("**\"Fast and friendly.\" - Bob K. (Drain Cleaning)**" :> <<"*","*","\"","F","a","s","t"," ","a","n","d"," ","f","r","i","e","n","d","l","y",".","\""," ","-"," ","B","o","b"," ","K","."," ","(","D","r","a","i","n"," ","C","l","e","a","n","i","n","g",")","*","*">>)
  @@ ("## Testimonials" :> <<"#","#"," ","T","e","s","t","i","m","o","n","i","a","l","s">>)
  @@ ("" :> <<>>)
  @@ ("Thanks again" :> <<"T","h","a","n","k","s"," ","a","g","a","i","n">>)
  @@ ("They came the same day." :> <<"T","h","e","y"," ","c","a","m","e"," ","t","h","e"," ","s","a","m","e"," ","d","a","y",".">>)
  @@ ("Jane D. (Plumbing)" :> <<"J","a","n","e"," ","D","."," ","(","P","l","u","m","b","i","n","g",")">>)
  @@ ("We were very happy with it (Heating)" :> <<"W","e"," ","w","e","r","e"," ","v","e","r","y"," ","h","a","p","p","y"," ","w","i","t","h"," ","i","t"," ","(","H","e","a","t","i","n","g",")">>)
  @@ ("Highly recommend! Bob (Cooling)" :> <<"H","i","g","h","l","y"," ","r","e","c","o","m","m","e","n","d","!"," ","B","o","b"," ","(","C","o","o","l","i","n","g",")">>)
  @@ ("  (Plumbing)" :> <<" "," ","(","P","l","u","m","b","i","n","g",")">>)
  @@ ("**Great** work by [Acme](http://x.io) (Plumbing)" :> <<"*","*","G","r","e","a","t","*","*"," ","w","o","r","k"," ","b","y"," ","[","A","c","m","e","]","(","h","t","t","p",":","/","/","x",".","i","o",")"," ","(","P","l","u","m","b","i","n","g",")">>)
  @@ ("'Nice job' Tom (Drains)" :> <<"'","N","i","c","e"," ","j","o","b","'"," ","T","o","m"," ","(","D","r","a","i","n","s",")">>)
  @@ ("\"Quick fix.\" **Al** (HVAC)" :> <<"\"","Q","u","i","c","k"," ","f","i","x",".","\""," ","*","*","A","l","*","*"," ","(","H","V","A","C",")">>)
  @@ ("Call us (today) now" :> <<"C","a","l","l"," ","u","s"," ","(","t","o","d","a","y",")"," ","n","o","w">>)
  @@ ("# Reviews (All)" :> <<"#"," ","R","e","v","i","e","w","s"," ","(","A","l","l",")">>)

(***************************************************************************)
(* generate_reviews_yaml.  reviews_data is the list handed to yaml.dump.   *)
(***************************************************************************)
BOLD == <<"*", "*">>

\* the characters [.!?"] that end the review text in the split pattern
Terminal == {".", "!", "?", "\""}

\* a line loses everything if it starts with "#"
BlankHeadings(lines) ==
  [n \in 1..Len(lines) |-> IF StartsWith(lines[n], <<"#">>) THEN <<>> ELSE lines[n]]

\* re.sub(r'^#.*', '', raw_text, flags=re.MULTILINE)
RemoveHeadings(raw_text) == JoinLines(BlankHeadings(SplitLines(raw_text)))

\* raw_text.replace('**', '\n').split('\n') after the headings are removed
CandidateLines(raw_text) == SplitLines(Replace(RemoveHeadings(raw_text), BOLD, <<"\n">>))

\* \(([^)]+)\)$ matches s from index j
ParenMatchesAt(s, j) ==
  /\ j + 2 <= Len(s)
  /\ s[j] = "("
  /\ s[Len(s)] = ")"
  /\ \A m \in (j + 1)..(Len(s) - 1) : s[m] # ")"

\* the index after the blanks \s* takes from index i
AfterBlanks(s, i) == i + LeadCount(From(s, i), Whitespace)

\* re.search(r'(.*?)\s*\(([^)]+)\)$', s): the index where \s* starts, or 0
ParenStart(s) == FirstFrom(s, 1, LAMBDA i : ParenMatchesAt(s, AfterBlanks(s, i)))

\* re.search(r'(.*[.!?"])\s+(.*)', s): the index where group 1 ends, or 0
SplitEndOf(s, ends) == IF ends = {} THEN 0 ELSE CHOOSE p \in ends : \A r \in ends : r <= p

SplitEnd(s) ==
  SplitEndOf(s, {p \in 1..(Len(s) - 1) : s[p] \in Terminal /\ s[p + 1] \in Whitespace})

\* len(s.split())
WordCount(s) ==
  Cardinality({j \in 1..Len(s) : s[j] \notin Whitespace /\ (j = 1 \/ s[j - 1] \in Whitespace)})

\* a review must have fewer words than this before the parenthesis for them to be its source
MinTextWords == 5

\* source and the part of the line that joins the review text, given where the split is
ResolvedAtSplit(pre_paren, p) ==
  IF p > 0
    THEN [source |-> Strip(From(pre_paren, p + 1)), own_text |-> Some(Strip(SubSeq(pre_paren, 1, p)))]
  ELSE IF WordCount(pre_paren) < MinTextWords
    THEN [source |-> pre_paren, own_text |-> None]
  ELSE [source |-> <<>>, own_text |-> Some(pre_paren)]

Resolved(pre_paren) == ResolvedAtSplit(pre_paren, SplitEnd(pre_paren))

\* what the loop computes from a line with a trailing parenthesis that starts at k
MatchedFacts(clean_line, k) ==
  [blank |-> FALSE, clean_line |-> clean_line, matched |-> TRUE,
   service |-> Strip(SubSeq(clean_line, AfterBlanks(clean_line, k) + 1, Len(clean_line) - 1)),
   resolved |-> Resolved(Strip(SubSeq(clean_line, 1, k - 1)))]

CleanLineFacts(clean_line, k) ==
  IF k > 0 THEN MatchedFacts(clean_line, k)
  ELSE [blank |-> FALSE, clean_line |-> clean_line, matched |-> FALSE,
        service |-> <<>>, resolved |-> [source |-> <<>>, own_text |-> None]]

StrippedRevFacts(stripped, clean_line) ==
  IF stripped = <<>>
    THEN [blank |-> TRUE, clean_line |-> <<>>, matched |-> FALSE,
          service |-> <<>>, resolved |-> [source |-> <<>>, own_text |-> None]]
    ELSE CleanLineFacts(clean_line, ParenStart(clean_line))

\* what the loop computes from a line alone
RevFactsOf(line) == StrippedRevFacts(Strip(line), Strip(StripLinks(Strip(line))))

\* " ".join(parts)
RECURSIVE JoinWords(_)
JoinWords(parts) ==
  IF parts = <<>> THEN <<>>
  ELSE IF Len(parts) = 1 THEN parts[1]
  ELSE parts[1] \o <<" ">> \o JoinWords(Tail(parts))

\* buffer + [own text of the line], if it has one
TextParts(buffer, own_text) == IF own_text.found THEN Append(buffer, own_text.val) ELSE buffer

\* review_text.strip().strip('"').strip("'").replace("**", "")
TrimReview(review_text) ==
  Replace(StripChar(StripChar(Strip(review_text), "\""), "'"), BOLD, <<>>)

ReviewText(buffer, f) == TrimReview(JoinWords(TextParts(buffer, f.resolved.own_text)))

ReviewRecord(review_text, f) ==
  [service_type |-> "None", text |-> review_text,
   source |-> Replace(f.resolved.source, BOLD, <<>>),
   service |-> <<"(">> \o Replace(f.service, BOLD, <<>>) \o <<")">>]

\* a mutation of the record step: the record is written whatever its text
WithRecordAlways(s, review_text, f) ==
  [s EXCEPT !.reviews_data = Append(@, ReviewRecord(review_text, f)), !.buffer = <<>>]

\* if review_text: reviews_data.append(...); buffer = []
WithRecord(s, review_text, f) ==
  IF review_text # <<>>
    THEN [s EXCEPT !.reviews_data = Append(@, ReviewRecord(review_text, f)), !.buffer = <<>>]
    ELSE [s EXCEPT !.buffer = <<>>]

\* one iteration of "for line in lines"
AfterRevLine(s, f) ==
  IF f.blank THEN s
  ELSE IF f.matched THEN WithRecord(s, ReviewText(s.buffer, f), f)
  ELSE [s EXCEPT !.buffer = Append(@, f.clean_line)]

CharsOf(content) == [n \in 1..Len(content) |-> RevChars[content[n]]]

\* the section text: "\n".join(current_content)
RawText(content) == JoinLines(CharsOf(content))

Range(s) == {s[n] : n \in 1..Len(s)}

\* the candidate lines that sample lines fall into
RevPieces == UNION {Range(CandidateLines(RevChars[line])) : line \in RevSampleLines} \cup {<<>>}

\* the facts of every candidate line, computed once
RevFacts == [piece \in RevPieces |-> RevFactsOf(piece)] @@ <<>>

RevDocs ==
  {content \in UNION {StringsUpTo(sc, MaxRevLines) : sc \in RevScenarios} :
     ~should_skip_page(CUSTOMER_REVIEWS, RawText(content))}

RevInit ==
  /\ rev \in {[pc |-> "start", content |-> content, lines |-> <<>>, i |-> 0,
               buffer |-> <<>>, reviews_data |-> <<>>] : content \in RevDocs}
  /\ kebab = Idle /\ seg = Idle /\ page = Idle /\ nav = Idle /\ img = Idle

\* the heading removal and the split into candidate lines
RevSplit ==
  /\ rev.pc = "start"
  /\ rev' = [rev EXCEPT !.pc = "lines", !.lines = CandidateLines(RawText(rev.content)), !.i = 1]
  /\ UNCHANGED <<kebab, seg, page, nav, img>>

\* one iteration of "for line in lines"
RevLineStep ==
  /\ rev.pc = "lines"
  /\ rev.i <= Len(rev.lines)
  /\ rev' = [AfterRevLine(rev, RevFacts[rev.lines[rev.i]]) EXCEPT !.i = @ + 1]
  /\ UNCHANGED <<kebab, seg, page, nav, img>>

\* return yaml.dump({"reviews": reviews_data}, ...)
RevReturn ==
  /\ rev.pc = "lines"
  /\ rev.i > Len(rev.lines)
  /\ rev' = [rev EXCEPT !.pc = "returned"]
  /\ UNCHANGED <<kebab, seg, page, nav, img>>

RevNext == RevSplit \/ RevLineStep \/ RevReturn

SpecRev == RevInit /\ [][RevNext]_vars

(***************************************************************************)
(* The review claims.                                                      *)
(***************************************************************************)
ReviewQuotes ==
  {<<"G","r","e","a","t"," ","s","e","r","v","i","c","e","!">>,
   <<"F","a","s","t"," ","a","n","d"," ","f","r","i","e","n","d","l","y",".">>}

ReviewNames == {<<"J","a","n","e"," ","D",".">>, <<"B","o","b"," ","K",".">>}

ReviewCategories ==
  {<<"P","l","u","m","b","i","n","g">>, <<"D","r","a","i","n"," ","C","l","e","a","n","i","n","g">>}

\* "<quote>" - <name> (<category>)
ShapedLine(quote, name, category) ==
  <<"\"">> \o quote \o <<"\"", " ", "-", " ">> \o name \o <<" ", "(">> \o category \o <<")">>

AtRevLine == rev.pc = "lines" /\ rev.i <= Len(rev.lines)

AtRevEnd == rev.pc = "lines" /\ rev.i > Len(rev.lines)

CurrentRevFacts == RevFacts[rev.lines[rev.i]]

\* the candidate line in hand is the bold line of that shape, the buffer is empty
AtShapedLine(quote, name, category) ==
  /\ AtRevLine
  /\ rev.lines[rev.i] = ShapedLine(quote, name, category)
  /\ rev.buffer = <<>>

ShapedRecord(quote, name, category) ==
  [service_type |-> "None", text |-> quote, source |-> name,
   service |-> <<"(">> \o category \o <<")">>]

\* C7: a bold line **"<quote>" - <name> (<category>)** met with an empty
\* buffer adds exactly one record, whose text is the quote without its
\* quotation marks, whose source is the name alone and whose service is
\* (<category>).
ShapedReviewParsed ==
  [][\A quote \in ReviewQuotes : \A name \in ReviewNames : \A category \in ReviewCategories :
       AtShapedLine(quote, name, category) =>
         rev'.reviews_data = Append(rev.reviews_data, ShapedRecord(quote, name, category))]_vars

\* the line, links and outer blanks stripped, ends with a parenthesized category
EndsWithCategory(s) == \E j \in 1..Len(s) : ParenMatchesAt(s, j)

\* where the category starts: at the first "(" with no ")" up to the closing one
CategoryStart(s) == FirstFrom(s, 1, LAMBDA j : ParenMatchesAt(s, j))

CategoryOf(s) == Strip(SubSeq(s, CategoryStart(s) + 1, Len(s) - 1))

Parenthesized(f) == ~f.blank /\ EndsWithCategory(f.clean_line)

Unparenthesized(f) == ~f.blank /\ ~EndsWithCategory(f.clean_line)

\* the record of the line: buffered text, service tag in parentheses, resolved source
RecordOf(buffer, f) ==
  [service_type |-> "None", text |-> ReviewText(buffer, f), source |-> f.resolved.source,
   service |-> <<"(">> \o CategoryOf(f.clean_line) \o <<")">>]

OnlyBuffered(f) ==
  rev'.buffer = Append(rev.buffer, f.clean_line) /\ rev'.reviews_data = rev.reviews_data

Untouched == rev'.buffer = rev.buffer /\ rev'.reviews_data = rev.reviews_data

\* every parenthesized line writes its record
AlwaysEmits(f) ==
  rev'.buffer = <<>> /\ rev'.reviews_data = Append(rev.reviews_data, RecordOf(rev.buffer, f))

\* a parenthesized line writes its record unless the review text is empty
EmitsIfText(f) ==
  /\ rev'.buffer = <<>>
  /\ rev'.reviews_data = IF ReviewText(rev.buffer, f) # <<>>
                           THEN Append(rev.reviews_data, RecordOf(rev.buffer, f))
                           ELSE rev.reviews_data

\* C10 as stated: every line that ends with a parenthesized category writes
\* exactly one record and clears the buffer, every other non-empty line is
\* only appended to the buffer, and the end of the input writes nothing.
ReviewBufferAsClaimed ==
  [][/\ (AtRevLine /\ Parenthesized(CurrentRevFacts)) => AlwaysEmits(CurrentRevFacts)
     /\ (AtRevLine /\ Unparenthesized(CurrentRevFacts)) => OnlyBuffered(CurrentRevFacts)
     /\ AtRevEnd => rev'.reviews_data = rev.reviews_data]_vars

\* C10: a line that ends with a parenthesized category clears the buffer and
\* writes one record (buffered text, service tag in parentheses, resolved
\* source) if the review text is not empty, and no record if it is empty;
\* every other non-empty line is only appended to the buffer; an empty line
\* and the end of the input change neither the buffer nor the records.
ReviewBufferProtocol ==
  [][/\ (AtRevLine /\ Parenthesized(CurrentRevFacts)) => EmitsIfText(CurrentRevFacts)
     /\ (AtRevLine /\ Unparenthesized(CurrentRevFacts)) => OnlyBuffered(CurrentRevFacts)
     /\ (AtRevLine /\ CurrentRevFacts.blank) => Untouched
     /\ AtRevEnd => Untouched]_vars

ParenthesizedLines == {n \in 1..Len(rev.lines) : Parenthesized(RevFacts[rev.lines[n]])}

\* a returned run with a record, a parenthesized line that wrote none and
\* text left in the buffer
ReviewBufferWitness ==
  /\ rev.pc = "returned"
  /\ rev.reviews_data # <<>>
  /\ Cardinality(ParenthesizedLines) > Len(rev.reviews_data)
  /\ rev.buffer # <<>>

\* a returned run in which a record's text came from the buffer and the line
ReviewBufferJoinedWitness ==
  /\ rev.pc = "returned"
  /\ \E n \in 1..Len(rev.reviews_data) :
       /\ Contains(rev.reviews_data[n].text, <<"d","a","y","."," ","W","e">>)
       /\ rev.reviews_data[n].source = <<>>

(***************************************************************************)
(* Service-box mode of parse_page_content.                                 *)
(***************************************************************************)
\* the line about to be processed, stripped
CurrentStripped == Strip(PageChars[page.lines[page.i]])

\* it is a heading line of any level
AtHeading == StartsWith(CurrentStripped, <<"#">>)

\* it contains 'how can we help'
HasHelpPhrase == Contains(RemoveChars(Lower(CurrentStripped), {"\\"}), HOW_CAN_WE_HELP)

\* the line ends service-box mode: a heading without the phrase
EndsBoxAsClaimed == AtHeading /\ ~HasHelpPhrase

\* nothing but the service box changes in this step
OnlyBoxChanges ==
  /\ page'.body_lines = page.body_lines
  /\ page'.ctas = page.ctas
  /\ page'.promos = page.promos
  /\ page'.image_queue = page.image_queue
  /\ page'.subheader = page.subheader

\* what a line does while the mode is on and the line does not end it
InBoxAsClaimed(f) ==
  /\ page'.is_service_box
  /\ OnlyBoxChanges
  /\ page'.service_box =
       IF f.is_p THEN [page.service_box EXCEPT !.sub_heading = f.sub_heading]
       ELSE IF ~f.has_bracket
         THEN [page.service_box EXCEPT
                 !.cards = Append(@, [title |-> f.cleaned_title, slug |-> to_kebab_case(f.cleaned_title)])]
       ELSE page.service_box

\* C11: service-box mode is entered on a '##' line containing 'how can we
\* help' and left on the first later heading line, of any level, without
\* that phrase; while it is on, a '[p]' line only sets sub_heading, a line
\* without a bracket adds exactly one card {title, slug = kebab of title},
\* every other line is ignored and nothing reaches body_lines, ctas, promos
\* or the image queue; a heading line is never turned into a card.
ServiceBoxMode ==
  [][(AtLine /\ ~CurrentFacts.blank) =>
       /\ CurrentFacts.enters_box => page'.is_service_box
       /\ (page.is_service_box /\ ~CurrentFacts.enters_box /\ EndsBoxAsClaimed) =>
            ~page'.is_service_box /\ page'.service_box = page.service_box
       /\ (page.is_service_box /\ ~CurrentFacts.enters_box /\ ~EndsBoxAsClaimed) =>
            InBoxAsClaimed([is_p |-> CurrentFacts.is_p, has_bracket |-> CurrentFacts.has_bracket,
                            sub_heading |-> CurrentFacts.sub_heading,
                            cleaned_title |-> clean_body_line(CurrentStripped)])
       /\ AtHeading => page'.service_box.cards \in {page.service_box.cards, <<>>}]_vars

(***************************************************************************)
(* The blank entries of body_lines.                                        *)
(***************************************************************************)
IsBodyHeading(entry) == StartsWith(entry, <<"#">>)

\* no leading blank, no two blanks in a row, a blank before every heading that
\* is not first, and after a list line only a list line or a blank
BodySeparated(b) ==
  /\ b # <<>> => b[1] # <<>>
  /\ \A k \in 2..Len(b) : ~(b[k - 1] = <<>> /\ b[k] = <<>>)
  /\ \A k \in 2..Len(b) : IsBodyHeading(b[k]) => b[k - 1] = <<>>
  /\ \A k \in 2..Len(b) : IsListLine(b[k - 1]) => (b[k] = <<>> \/ IsListLine(b[k]))

\* C12: after any prefix of the lines, body_lines has no two adjacent blank
\* entries and does not start with a blank entry; a heading that follows a
\* body line has a blank entry before it, and so has a non-list, non-heading
\* line that follows a list line.
BodyLinesSeparated == page.pc \in {"lines", "returned"} => BodySeparated(page.body_lines)

\* none of the lines given is blank or opens the service box
NoBlankInput == \A n \in 1..Len(page.lines) : ~PageFacts[page.lines[n]].blank

\* a list line, an inserted blank, a plain line, an inserted blank and a heading
BodyLinesWitness ==
  /\ page.pc = "returned"
  /\ NoBlankInput
  /\ Len(page.body_lines) = 5
  /\ IsListLine(page.body_lines[1])
  /\ page.body_lines[2] = <<>>
  /\ ~IsListLine(page.body_lines[3]) /\ ~IsBodyHeading(page.body_lines[3])
  /\ page.body_lines[4] = <<>>
  /\ IsBodyHeading(page.body_lines[5])

\* a blank input line after a body line gave one blank entry, a second one none
BodyBlankOnceWitness ==
  /\ page.pc = "returned"
  /\ Len(page.lines) = 4
  /\ ~PageFacts[page.lines[1]].blank /\ ~PageFacts[page.lines[4]].blank
  /\ PageFacts[page.lines[2]].blank /\ PageFacts[page.lines[3]].blank
  /\ Len(page.body_lines) = 3
  /\ page.body_lines[2] = <<>>

(***************************************************************************)
(* download_and_convert_image and the image loop of main.  What a request  *)
(* meets is the network's and the image library's to decide: each attempt  *)
(* takes any of Outcomes.                                                  *)
(***************************************************************************)
MaxImages == 2

YOUTUBE_COM == <<"y","o","u","t","u","b","e",".","c","o","m">>

YOUTU_BE == <<"y","o","u","t","u",".","b","e">>

DRIVE_HOST == <<"d","r","i","v","e",".","g","o","o","g","l","e",".","c","o","m">>

VIEW == <<"/","v","i","e","w">>

DRIVE_D == <<"/","d","/">>

DRIVE_DOWNLOAD == <<"h","t","t","p","s",":","/","/","d","r","i","v","e",".","g","o","o","g","l","e",".","c","o","m","/","u","c","?","e","x","p","o","r","t","=","d","o","w","n","l","o","a","d","&","i","d","=">>

HeroUrl == <<"h","t","t","p","s",":","/","/","c","d","n",".","i","o","/","h","e","r","o">>

PlainText == <<"n","o","n","e">>

VideoUrl == <<"h","t","t","p","s",":","/","/","y","o","u","t","u",".","b","e","/","a","b","c">>

DriveUrl == <<"h","t","t","p","s",":","/","/","d","r","i","v","e",".","g","o","o","g","l","e",".","c","o","m","/","f","i","l","e","/","d","/","a","-","1","_","b","/","v","i","e","w","?","u","s","p","=","s","h","a","r","i","n","g">>

USER_AGENTS ==
  <<"Mozilla/5.0 (Windows NT 10.0; Win64; x64) AppleWebKit/537.36 (KHTML, like Gecko) Chrome/91.0.4472.124 Safari/537.36",
    "Mozilla/5.0 (Macintosh; Intel Mac OS X 10_15_7) AppleWebKit/537.36 (KHTML, like Gecko) Chrome/92.0.4515.107 Safari/537.36">>

\* the image tasks a queue is made of
ImageTasks ==
  {[url |-> HeroUrl, filename |-> <<"h","o","m","e">>],
   [url |-> PlainText, filename |-> <<"a","b","o","u","t">>],
   [url |-> VideoUrl, filename |-> <<"h","o","m","e">>],
   [url |-> DriveUrl, filename |-> <<"a","b","o","u","t">>]}

\* requests.get raises, or answers with a status; a 200 answer is a web page,
\* an image, bytes that are no image, or an image that fails to load or save
Outcomes ==
  {[raised |-> TRUE, status |-> 0, html |-> FALSE, image |-> "none"],
   [raised |-> FALSE, status |-> 403, html |-> FALSE, image |-> "none"],
   [raised |-> FALSE, status |-> 404, html |-> FALSE, image |-> "none"],
   [raised |-> FALSE, status |-> 200, html |-> TRUE, image |-> "none"],
   [raised |-> FALSE, status |-> 200, html |-> FALSE, image |-> "unidentified"],
   [raised |-> FALSE, status |-> 200, html |-> FALSE, image |-> "broken"],
   [raised |-> FALSE, status |-> 200, html |-> FALSE, image |-> "ok"]}

\* [a-zA-Z0-9-_]
FileIdChars == Letters \cup Digits \cup {"-", "_"}

\* group 1 of /d/([a-zA-Z0-9-_]+) given where the match starts (0: no match)
FileIdAt(url, k) ==
  IF k = 0 THEN None
  ELSE Some(SubSeq(url, k + 3, k + 2 + LeadCount(From(url, k + 3), FileIdChars)))

\* re.search(r'/d/([a-zA-Z0-9-_]+)', url)
DriveFileId(url) ==
  FileIdAt(url, FirstFrom(url, 1, LAMBDA k : MatchAt(url, DRIVE_D, k) /\ k + 3 <= Len(url)
                                              /\ url[k + 3] \in FileIdChars))

DownloadUrl(url, file_id) == IF file_id.found THEN DRIVE_DOWNLOAD \o file_id.val ELSE url

\* the url requested: a drive view link becomes a download link
RequestUrl(url) ==
  IF Contains(url, DRIVE_HOST) /\ Contains(url, VIEW) THEN DownloadUrl(url, DriveFileId(url)) ELSE url

\* output_buffer.getvalue()
Bytes == [bytes |-> TRUE, text |-> "WEBP", detail |-> <<>>]

\* a reason string
Reason(text) == [bytes |-> FALSE, text |-> text, detail |-> <<>>]

\* f"Failed (HTTP {response.status_code})"
HttpFailure(status) ==
  IF status = 403 THEN Reason("Failed (HTTP 403)") ELSE Reason("Failed (HTTP 404)")

\* the lines before the loop, given the match of the url pattern
BeforeRequests(s, clean_match) ==
  IF ~clean_match.found
    THEN [s EXCEPT !.pc = "result",
                   !.res = [bytes |-> FALSE, text |-> "Skipped (Invalid URL format: {url})",
                            detail |-> s.image_queue[s.k].url]]
  ELSE IF Contains(clean_match.val, YOUTUBE_COM) \/ Contains(clean_match.val, YOUTU_BE)
    THEN [s EXCEPT !.pc = "result", !.res = Reason("Skipped (Video Link)")]
  ELSE [s EXCEPT !.pc = "fetch", !.url = RequestUrl(clean_match.val), !.agent = 1]

\* the request with this agent gets nowhere: the next agent, or the end of the list
NextAgent(s) ==
  IF s.agent < Len(USER_AGENTS)
    THEN [s EXCEPT !.agent = @ + 1]
    ELSE [s EXCEPT !.pc = "result", !.res = Reason("Failed (Unknown)")]

\* except Exception as e: if i == len(user_agents) - 1: return str(e)
AfterException(s) ==
  IF s.agent = Len(USER_AGENTS)
    THEN [s EXCEPT !.pc = "result", !.res = Reason("str(e)")]
    ELSE NextAgent(s)

\* return res
Return(s, res) == [s EXCEPT !.pc = "result", !.res = res]

\* one iteration of "for i, agent in enumerate(user_agents)"
AfterRequest(s, o) ==
  IF o.raised THEN AfterException(s)
  ELSE IF o.status = 403 /\ s.agent < Len(USER_AGENTS) THEN NextAgent(s)
  ELSE IF o.status # 200 THEN Return(s, HttpFailure(o.status))
  ELSE IF o.html THEN Return(s, Reason("Skipped (Target is a Webpage, not Image)"))
  ELSE IF o.image = "unidentified" THEN Return(s, Reason("Failed (Not an image file)"))
  ELSE IF o.image = "broken" THEN AfterException(s)
  ELSE Return(s, Bytes)

\* the request of this iteration, kept in the history of requests
Request(s, o) == [task |-> s.k, url |-> s.url, agent |-> s.agent, outcome |-> o]

ImageQueues == StringsUpTo(ImageTasks, MaxImages)

ImgInit ==
  /\ img \in {[pc |-> "loop", image_queue |-> q, k |-> 1, url |-> <<>>, agent |-> 0,
               res |-> Reason(""), requests |-> <<>>, image_log |-> <<>>, written |-> <<>>] :
                q \in ImageQueues}
  /\ kebab = Idle /\ seg = Idle /\ page = Idle /\ nav = Idle /\ rev = Idle

\* download_and_convert_image(url) is called: the lines before the requests
ImgCall ==
  /\ img.pc = "loop"
  /\ img.k <= Len(img.image_queue)
  /\ img' = BeforeRequests(img, BareUrl(img.image_queue[img.k].url))
  /\ UNCHANGED <<kebab, seg, page, nav, rev>>

\* one iteration of "for i, agent in enumerate(user_agents)"
ImgAttempt ==
  /\ img.pc = "fetch"
  /\ \E o \in Outcomes :
       img' = [AfterRequest(img, o) EXCEPT !.requests = Append(@, Request(img, o))]
  /\ UNCHANGED <<kebab, seg, page, nav, rev>>

\* the caller writes the image or logs the reason, and goes on to the next task
ImgLog ==
  /\ img.pc = "result"
  /\ img' = [img EXCEPT
               !.pc = "loop", !.k = @ + 1,
               !.written = IF img.res.bytes THEN Append(@, img.image_queue[img.k].filename) ELSE @,
               !.image_log = Append(@, [filename |-> img.image_queue[img.k].filename, res |-> img.res])]
  /\ UNCHANGED <<kebab, seg, page, nav, rev>>

\* the image loop is over
ImgDone ==
  /\ img.pc = "loop"
  /\ img.k > Len(img.image_queue)
  /\ img' = [img EXCEPT !.pc = "done"]
  /\ UNCHANGED <<kebab, seg, page, nav, rev>>

ImgNext == ImgCall \/ ImgAttempt \/ ImgLog \/ ImgDone

SpecImg == ImgInit /\ [][ImgNext]_vars

(***************************************************************************)
(* The image fetch claims.                                                 *)
(***************************************************************************)
\* requests n - 1 and n are of the same call
SameCall(n) == img.requests[n].task = img.requests[n - 1].task

\* a request after the first of a call follows a 403 answer, with the next agent
RetriesOnlyAfter403 ==
  \A n \in 2..Len(img.requests) :
    SameCall(n) =>
      /\ ~img.requests[n - 1].outcome.raised
      /\ img.requests[n - 1].outcome.status = 403
      /\ img.requests[n].agent = img.requests[n - 1].agent + 1

\* the first request of a call is made with the first agent, none beyond the list
AgentsInOrder ==
  \A n \in 1..Len(img.requests) :
    /\ img.requests[n].agent \in 1..Len(USER_AGENTS)
    /\ (n = 1 \/ ~SameCall(n)) => img.requests[n].agent = 1

\* the tasks before the current one were each logged once, in queue order
LoggedInOrder ==
  /\ Len(img.image_log) = (IF img.pc = "done" THEN Len(img.image_queue) ELSE img.k - 1)
  /\ \A n \in 1..Len(img.image_log) : img.image_log[n].filename = img.image_queue[n].filename

\* C13: the user agents are tried in list order, one request each at most; a
\* call stops at the first non-403 answer or at the end of the list, so that
\* a second request follows only a 403 answer to the first; every call
\* returns the bytes or a reason, and the caller handles every task once, in
\* queue order.
ImageFetchRetry ==
  img.pc # "idle" => AgentsInOrder /\ RetriesOnlyAfter403 /\ LoggedInOrder

(***************************************************************************)
(* The slug of the post file and the slug of the hero image.               *)
(***************************************************************************)
\* the section content main hands to parse_page_content with the title
PageContent == JoinLines([n \in 1..Len(page.lines) |-> PageChars[page.lines[n]]])

\* main writes a post for the section: it is no reserved key, it is not
\* skipped and it is not the review section
BecomesPost ==
  /\ page.page_title \notin {NAVIGATION_KEY, IGNORE_PAGE}
  /\ ~should_skip_page(page.page_title, PageContent)
  /\ ~Contains(Lower(page.page_title), CUSTOMER_REVIEWS)

\* every image task queued for the page is named by the slug
ImagesNamed(slug) ==
  \A n \in 1..Len(page.image_queue) : page.image_queue[n].filename = slug

\* C14: for every section title that becomes an output page, the slug of the
\* post file name computed in the main loop equals the slug written into
\* the front matter image field and used as the file name of the queued
\* image tasks, whatever the case of the word "page" in the title.
SlugConsistency ==
  page.pc = "returned" /\ BecomesPost =>
    /\ page.final_content.image = PostSlug(page.page_title)
    /\ ImagesNamed(PostSlug(page.page_title))

=============================================================================
